---- MODULE Spec2Model ----
(***************************************************************************)
(* State-machine model of the topography-builder client:                   *)
(*   - the map-generation workflow (useFileUpload hook + MapGenerator),    *)
(*   - the parameter panel with its debounced slice preview (Parameters),  *)
(*   - the SVG map editor: selection, document operations, tools, zoom,    *)
(*   - the hand-off of a pending map to the editor page, the upload        *)
(*     service, the editor store's history, the normalisation of a loaded  *)
(*     SVG, and the helpers intersectsRect, evaluateExpression and         *)
(*     processInputValue,                                                  *)
(*   - the auto-orientation of the 3D preview, the answers to the slice    *)
(*     preview requests, and the inspector's stroke and width fields.      *)
(* Each part has its own specification (SpecGen, SpecPar, SpecEd, SpecDoc, *)
(* SpecPath, SpecView, SpecPage, SpecUp, SpecHist, SpecLoad, SpecRect,     *)
(* SpecExpr, SpecInput, SpecOrient, SpecSlice, SpecInspect); SpecParLive   *)
(* is SpecPar with the timers and the clock taken as fair. The variables   *)
(* of the other parts stay at their initial values.                        *)
(***************************************************************************)
EXTENDS Integers, FiniteSets, Sequences, TLC

(***************************************************************************)
(* Bounds of the model                                                     *)
(***************************************************************************)
\* number of distinct files the user can pick
NumFiles == 3

\* how many "Edit in Editor" fetches may be unanswered at once
MaxEditorFetches == 2

NULL == 0

(***************************************************************************)
(* Part 1 - generation workflow                                            *)
(***************************************************************************)
VARIABLES
  selectedFile,      \* useFileUpload: selectedFile (NULL or a file id)
  loading,           \* useFileUpload: loading
  progress,          \* useFileUpload: progress (percent)
  error,             \* useFileUpload: error text
  status,            \* useFileUpload: status text
  resultImage,       \* useFileUpload: resultImage (NULL or preview URL of a file's map)
  resultBlob,        \* useFileUpload: resultBlob
  resultSvgBlob,     \* useFileUpload: resultSvgBlob
  originalFileName,  \* useFileUpload: originalFileName (NULL or the file whose name it is)
  zBounds,           \* MapGenerator: zBounds (NULL or the file they were computed from)
  zPending,          \* slice-preview requests of fetchZBounds still unanswered
  inflight,          \* the promise handleUpload / handleDownloadSVG is awaiting
  netLog,            \* every network request issued so far: [ep, file]
  statusTimers,      \* number of pending 3000 ms status-clearing timeouts (0 or 1 kept)
  phaseAtIssue,      \* history: the phase displayed when the last request was issued
  lastEnded,         \* history: how the last request ended
  editorFetches      \* fetches of handleEditInEditorClick still unanswered

genVars == <<selectedFile, loading, progress, error, status, resultImage,
             resultBlob, resultSvgBlob, originalFileName, zBounds, zPending,
             inflight, netLog, statusTimers, phaseAtIssue, lastEnded,
             editorFetches>>

Files == 1..NumFiles

\* FILE_CONFIG.MAX_FILE_SIZE, in bytes
MAX_FILE_SIZE == 100 * 1024 * 1024

\* the size of each file the user can pick: a small one, one exactly at the
\* ceiling, one just above it
FileSize(f) == CASE f = 1 -> 1024
                 [] f = 2 -> MAX_FILE_SIZE
                 [] OTHER -> MAX_FILE_SIZE + 1 + (f - 3)

\* FILE_CONFIG.SUPPORTED_FORMATS
SUPPORTED_FORMATS == {".obj", ".fbx", ".stl", ".ply"}

\* the extension of each file the user can drop or pick in the dialog (the
\* accept attribute of the input only presets the dialog's filter)
FileExt(f) == CASE f = 1 -> ".obj"
                [] f = 2 -> ".txt"
                [] f = 3 -> ".stl"
                [] OTHER -> ".ply"

NoRequest == [kind |-> "none", file |-> NULL, sent |-> FALSE]

\* MapGenerator.getPhase, as a function of (selectedFile, loading, resultImage)
getPhaseReordered(sf, ld, ri) ==
  IF sf = NULL THEN "upload"
  ELSE IF (~ld) /\ ri = NULL THEN "preview"
  ELSE IF ri # NULL THEN "download"
  ELSE IF ld THEN "loading"
  ELSE "upload"

getPhase(sf, ld, ri) ==
  IF sf = NULL THEN "upload"
  ELSE IF sf # NULL /\ (~ld) /\ ri = NULL THEN "preview"
  ELSE IF ld THEN "loading"
  ELSE IF ri # NULL THEN "download"
  ELSE "upload"

currentPhase == getPhase(selectedFile, loading, resultImage)

\* uploadFile / uploadFileSVG: the size validation that precedes xhr.send
SizeAccepted(f) == ~(FileSize(f) > MAX_FILE_SIZE)

\* uploadFile: the promise it returns; the request goes out only past the check
uploadFile(f) == [kind |-> "png", file |-> f, sent |-> SizeAccepted(f)]

\* uploadFileSVG: same check, other endpoint
uploadFileSVG(f) == [kind |-> "svg", file |-> f, sent |-> SizeAccepted(f)]

\* the requests a promise put on the wire
Wire(p, ep) == IF p.sent THEN {[ep |-> ep, file |-> p.file]} ELSE {}

\* fetchZBounds: posts the file to the slice-preview endpoint, unconditionally
fetchZBounds(f) == {[ep |-> "slice-preview", file |-> f]}

\* the value of loading after the finally block of handleUpload / handleDownloadSVG
FinallyLoadingStuck == TRUE

FinallyLoading == FALSE

GenInit ==
  /\ selectedFile = NULL
  /\ loading = FALSE
  /\ progress = 0
  /\ error = ""
  /\ status = ""
  /\ resultImage = NULL
  /\ resultBlob = NULL
  /\ resultSvgBlob = NULL
  /\ originalFileName = NULL
  /\ zBounds = NULL
  /\ zPending = {}
  /\ inflight = NoRequest
  /\ netLog = {}
  /\ statusTimers = 0
  /\ phaseAtIssue = "none"
  /\ lastEnded = "none"
  /\ editorFetches = 0

\* FileUpload.handleDrop / handleFileSelect -> handleFileSelectWithBounds(file):
\* the drop zone is rendered in the upload phase only
SelectFile(f) ==
  /\ currentPhase = "upload"
  /\ selectedFile' = f
  /\ error' = ""
  /\ zBounds' = NULL
  /\ zPending' = zPending \cup {f}
  /\ netLog' = netLog \cup fetchZBounds(f)
  /\ UNCHANGED <<loading, progress, status, resultImage, resultBlob,
                 resultSvgBlob, originalFileName, inflight, statusTimers,
                 phaseAtIssue, lastEnded>>

\* fetchZBounds, after the await: the response (or the failure) arrives
ZBoundsResponse(f, ok, hasBounds) ==
  /\ f \in zPending
  /\ zPending' = zPending \ {f}
  /\ zBounds' = IF ok /\ hasBounds THEN f ELSE zBounds
  /\ UNCHANGED <<selectedFile, loading, progress, error, status, resultImage,
                 resultBlob, resultSvgBlob, originalFileName, inflight, netLog,
                 statusTimers, phaseAtIssue, lastEnded>>

\* "Generate Topographical Map" -> handleProcessFile -> handleUpload, up to the await
ProcessFile ==
  /\ currentPhase = "preview"
  /\ ~loading
  /\ selectedFile # NULL
  /\ resultImage' = NULL
  /\ resultBlob' = NULL
  /\ resultSvgBlob' = NULL
  /\ loading' = TRUE
  /\ error' = ""
  /\ progress' = 0
  /\ status' = "Uploading file..."
  /\ originalFileName' = selectedFile
  /\ inflight' = uploadFile(selectedFile)
  /\ netLog' = netLog \cup Wire(uploadFile(selectedFile), "upload")
  /\ phaseAtIssue' = currentPhase
  /\ lastEnded' = "none"
  /\ UNCHANGED <<selectedFile, zBounds, zPending, statusTimers>>

\* "Download SVG" in the result panel -> handleDownloadSVG, up to the await
DownloadSVG ==
  /\ currentPhase = "download"
  /\ IF selectedFile = NULL
       THEN /\ error' = "No file selected for SVG download"
            /\ UNCHANGED <<loading, progress, status, inflight, netLog,
                           phaseAtIssue, lastEnded>>
       ELSE /\ loading' = TRUE
            /\ error' = ""
            /\ progress' = 0
            /\ status' = "Generating SVG..."
            /\ inflight' = uploadFileSVG(selectedFile)
            /\ netLog' = netLog \cup Wire(uploadFileSVG(selectedFile), "generate-map-svg")
            /\ phaseAtIssue' = currentPhase
            /\ lastEnded' = "none"
  /\ UNCHANGED <<selectedFile, resultImage, resultBlob, resultSvgBlob,
                 originalFileName, zBounds, zPending, statusTimers>>

\* xhr.upload.onprogress -> the onProgress callback of either flow
UploadProgress(pct) ==
  /\ inflight.kind # "none"
  /\ inflight.sent
  /\ IF pct < 100
       THEN /\ progress' = pct
            /\ status' = IF inflight.kind = "png" THEN "Uploading..." ELSE "Generating SVG... n%"
       ELSE /\ progress' = 0
            /\ status' = IF inflight.kind = "png" THEN "Processing file..." ELSE "Processing SVG..."
  /\ UNCHANGED <<selectedFile, loading, error, resultImage, resultBlob,
                 resultSvgBlob, originalFileName, zBounds, zPending, inflight,
                 netLog, statusTimers, phaseAtIssue, lastEnded>>

\* handleUpload after the await, promise resolved (xhr.onload, status 200)
UploadSucceeds ==
  /\ inflight.kind = "png"
  /\ inflight.sent
  /\ status' = "Processing complete!"
  /\ resultImage' = inflight.file
  /\ resultBlob' = inflight.file
  /\ statusTimers' = 1
  /\ loading' = FinallyLoading
  /\ inflight' = NoRequest
  /\ lastEnded' = "png-ok"
  /\ UNCHANGED <<selectedFile, progress, error, resultSvgBlob, originalFileName,
                 zBounds, zPending, netLog, phaseAtIssue>>

\* handleUpload after the await, promise rejected (size check, onload with an
\* error status, onerror): catch + finally
UploadFails ==
  /\ inflight.kind = "png"
  /\ error' = "err"
  /\ status' = ""
  /\ loading' = FinallyLoading
  /\ inflight' = NoRequest
  /\ lastEnded' = "png-fail"
  /\ UNCHANGED <<selectedFile, progress, resultImage, resultBlob, resultSvgBlob,
                 originalFileName, zBounds, zPending, netLog, statusTimers,
                 phaseAtIssue>>

\* handleDownloadSVG after the await, promise resolved
SvgSucceeds ==
  /\ inflight.kind = "svg"
  /\ inflight.sent
  /\ status' = "SVG generation complete!"
  /\ resultSvgBlob' = inflight.file
  /\ statusTimers' = 1
  /\ loading' = FinallyLoading
  /\ inflight' = NoRequest
  /\ lastEnded' = "svg-ok"
  /\ UNCHANGED <<selectedFile, progress, error, resultImage, resultBlob,
                 originalFileName, zBounds, zPending, netLog, phaseAtIssue>>

\* handleDownloadSVG after the await, promise rejected: catch + finally
SvgFails ==
  /\ inflight.kind = "svg"
  /\ error' = "err"
  /\ status' = ""
  /\ loading' = FinallyLoading
  /\ inflight' = NoRequest
  /\ lastEnded' = "svg-fail"
  /\ UNCHANGED <<selectedFile, progress, resultImage, resultBlob, resultSvgBlob,
                 originalFileName, zBounds, zPending, netLog, statusTimers,
                 phaseAtIssue>>

\* the setTimeout(() => setStatus(""), 3000) of either flow
StatusTimerFires ==
  /\ statusTimers > 0
  /\ statusTimers' = 0
  /\ status' = ""
  /\ UNCHANGED <<selectedFile, loading, progress, error, resultImage, resultBlob,
                 resultSvgBlob, originalFileName, zBounds, zPending, inflight,
                 netLog, phaseAtIssue, lastEnded>>

\* the nine state fields of the useFileUpload hook
workflowState ==
  [selectedFile |-> selectedFile, loading |-> loading, progress |-> progress,
   error |-> error, status |-> status, resultImage |-> resultImage,
   resultBlob |-> resultBlob, resultSvgBlob |-> resultSvgBlob,
   originalFileName |-> originalFileName]

\* the values the hook's useState calls start from
initialWorkflowState ==
  [selectedFile |-> NULL, loading |-> FALSE, progress |-> 0,
   error |-> "", status |-> "", resultImage |-> NULL,
   resultBlob |-> NULL, resultSvgBlob |-> NULL,
   originalFileName |-> NULL]

\* useFileUpload.reset: the hook state it leaves when called in the current
\* state (the results are cleared only where one is held)
reset ==
  [selectedFile |-> NULL, loading |-> FALSE, progress |-> 0,
   error |-> "", status |-> "",
   resultImage |-> IF resultImage # NULL THEN NULL ELSE resultImage,
   resultBlob |-> IF resultBlob # NULL THEN NULL ELSE resultBlob,
   resultSvgBlob |-> IF resultSvgBlob # NULL THEN NULL ELSE resultSvgBlob,
   originalFileName |-> NULL]

\* a restart that forgets to drop the result of the last generation
RestartKeepsResult ==
  /\ currentPhase \in {"preview", "download"}
  /\ selectedFile' = NULL
  /\ loading' = FALSE
  /\ progress' = 0
  /\ error' = ""
  /\ status' = ""
  /\ UNCHANGED <<resultImage, resultBlob, resultSvgBlob>>
  /\ originalFileName' = NULL
  /\ zBounds' = NULL
  /\ zPending' = {}
  /\ inflight' = NoRequest
  /\ statusTimers' = 0
  /\ phaseAtIssue' = "none"
  /\ lastEnded' = "none"
  /\ editorFetches' = 0
  /\ UNCHANGED netLog

\* "Upload New File" / "Create Another Map" -> handleRestart: the page reloads
\* and every piece of client state starts afresh (the request log is kept: the
\* requests did go out)
Restart ==
  /\ currentPhase \in {"preview", "download"}
  /\ selectedFile' = NULL
  /\ loading' = FALSE
  /\ progress' = 0
  /\ error' = ""
  /\ status' = ""
  /\ resultImage' = NULL
  /\ resultBlob' = NULL
  /\ resultSvgBlob' = NULL
  /\ originalFileName' = NULL
  /\ zBounds' = NULL
  /\ zPending' = {}
  /\ inflight' = NoRequest
  /\ statusTimers' = 0
  /\ phaseAtIssue' = "none"
  /\ lastEnded' = "none"
  /\ editorFetches' = 0
  /\ UNCHANGED netLog

(***************************************************************************)
(* Part 2 - parameter panel and debounced slice preview                    *)
(* Time advances in ticks of 100 ms.                                       *)
(***************************************************************************)
VARIABLES
  pZBounds,              \* Parameters prop zBounds is present (file always is, in the preview phase)
  params,                \* the transform parameter set, abstracted to one value
  currentZ,              \* SlicePreview: currentZ
  interactionCount,      \* Parameters: interactionCountRef.current
  isUserInteracting,     \* Parameters: isUserInteracting
  updatePending,         \* SlicePreview: updatePending
  previewTimers,         \* pending timeouts of the preview effect: [id, due, z, p]
  interactionTimeoutRef, \* SlicePreview: interactionTimeoutRef.current (a timer id or NULL)
  endTimers,             \* pending 100 ms timeouts of handleInteractionEnd: how many are due in d ticks
  lastReq,               \* history: the slice-preview request the last step issued: [z, p]
  reqNow,                \* history: the last step issued a slice-preview request
  sliderMouse,           \* the mouse button is held, pressed on the z-slider
  sliderTouches,         \* number of fingers held on the z-slider
  dragCtl,               \* a DragInput drag is in progress (dragStateRef.isDragging)
  netCalls,              \* history: handleInteractionStart calls minus handleInteractionEnd calls
  sinceChange            \* history: ticks since currentZ or params last changed (capped)

parVars == <<pZBounds, params, currentZ, interactionCount, isUserInteracting,
             updatePending, previewTimers, interactionTimeoutRef, endTimers,
             lastReq, reqNow, sliderMouse, sliderTouches, dragCtl, netCalls, sinceChange>>

\* values a parameter / the slice level can take: 0..MaxVal
MaxVal == 1
\* fingers that can rest on the slider at once
MaxTouches == 1
\* pending timeouts of handleInteractionEnd kept at once
MaxEndTimers == 1
\* how far handleInteractionEnd calls may outnumber handleInteractionStart calls
MaxStray == 1

Vals == 0..MaxVal

\* the 300 ms of the preview effect's setTimeout, in ticks
PreviewDelay == 3
\* the 100 ms of handleInteractionEnd's setTimeout, in ticks
EndDelay == 1
\* (zBounds.min + zBounds.max) / 2 of the loaded model
MidZ == 1

FreeId(used) == CHOOSE i \in 1..(Cardinality(used) + 1) : i \notin used

Ids(ts) == {t.id : t \in ts}

\* clearTimeout(id)
clearTimeout(ts, id) == {t \in ts : t.id # id}

\* the parameter-change effect of SlicePreview (useEffect, part_007:298-328):
\* yields the timers, the ref and updatePending after it ran
PreviewEffectNoClear(z, p, inter, zb, ts, ref, up) ==
  IF zb /\ ~inter
    THEN LET id == FreeId(Ids(ts))
         IN [timers |-> ts \cup {[id |-> id, due |-> PreviewDelay, z |-> z, p |-> p]},
             ref |-> id, pending |-> TRUE]
    ELSE [timers |-> ts, ref |-> ref, pending |-> up]

PreviewEffect(z, p, inter, zb, ts, ref, up) ==
  IF zb /\ ~inter
    THEN LET cleared == IF ref # NULL THEN clearTimeout(ts, ref) ELSE ts
             id == FreeId(Ids(cleared))
         IN [timers |-> cleared \cup {[id |-> id, due |-> PreviewDelay, z |-> z, p |-> p]},
             ref |-> id, pending |-> TRUE]
    ELSE [timers |-> ts, ref |-> ref, pending |-> up]

\* render + effect after a state change
RunEffect(z, p, inter, zb) ==
  LET r == PreviewEffect(z, p, inter, zb, previewTimers, interactionTimeoutRef, updatePending)
  IN /\ previewTimers' = r.timers
     /\ interactionTimeoutRef' = r.ref
     /\ updatePending' = r.pending

\* handleInteractionStart
handleInteractionStart ==
  /\ interactionCount' = interactionCount + 1
  /\ isUserInteracting' = TRUE
  /\ netCalls' = netCalls + 1
  /\ UNCHANGED endTimers
  /\ RunEffect(currentZ, params, TRUE, pZBounds)

\* Math.max(0, interactionCountRef.current - 1)
DecrementUnclamped(c) == c - 1

Decrement(c) == IF c - 1 > 0 THEN c - 1 ELSE 0

\* handleInteractionEnd
handleInteractionEnd ==
  /\ interactionCount' = Decrement(interactionCount)
  /\ netCalls' = netCalls - 1
  /\ endTimers' = IF Decrement(interactionCount) = 0
                    THEN [endTimers EXCEPT ![EndDelay] = @ + 1]
                    ELSE endTimers
  /\ UNCHANGED <<isUserInteracting, previewTimers, interactionTimeoutRef, updatePending>>

\* the callback of handleInteractionEnd's timeout: the flag it leaves
EndCallbackNoRecheck(c, flag) == FALSE

\* a callback that leaves the flag as it finds it
EndCallbackKeepsFlag(c, flag) == flag

EndCallback(c, flag) == IF c = 0 THEN FALSE ELSE flag

PendingEnds == endTimers[0] + endTimers[EndDelay]

\* an end-of-interaction call can be taken (its timeout fits the model's bound)
EndFits == Decrement(interactionCount) = 0 => PendingEnds < MaxEndTimers

Open == (IF sliderMouse THEN 1 ELSE 0) + sliderTouches + (IF dragCtl THEN 1 ELSE 0)

NoSliceRequest == [z |-> 0, p |-> 0]

ParInit ==
  /\ pZBounds = FALSE
  /\ params = 0
  /\ currentZ = 0
  /\ interactionCount = 0
  /\ isUserInteracting = FALSE
  /\ updatePending = FALSE
  /\ previewTimers = {}
  /\ interactionTimeoutRef = NULL
  /\ endTimers = [d \in 0..EndDelay |-> 0]
  /\ lastReq = NoSliceRequest
  /\ reqNow = FALSE
  /\ sliderMouse = FALSE
  /\ sliderTouches = 0
  /\ dragCtl = FALSE
  /\ netCalls = 0
  /\ sinceChange = PreviewDelay

ParUnchangedInteraction ==
  UNCHANGED <<interactionCount, isUserInteracting, endTimers, netCalls>>

\* the zBounds prop arrives (fetchZBounds answered): SlicePreview centres
\* currentZ and the parameter effect runs on the re-render
ZBoundsArrive ==
  /\ ~pZBounds
  /\ pZBounds' = TRUE
  /\ currentZ' = MidZ
  /\ sinceChange' = 0
  /\ RunEffect(MidZ, params, isUserInteracting, TRUE)
  /\ ParUnchangedInteraction
  /\ reqNow' = FALSE
  /\ lastReq' = NoSliceRequest
  /\ UNCHANGED <<params, sliderMouse, sliderTouches, dragCtl>>

\* DragInput.handleMouseDown on a transform control: as rendered by
\* Parameters (part_007:589-708) the control gets no onInteractionStart
DragMouseDown ==
  /\ ~dragCtl /\ ~sliderMouse
  /\ dragCtl' = TRUE
  /\ ParUnchangedInteraction
  /\ reqNow' = FALSE
  /\ lastReq' = NoSliceRequest
  /\ UNCHANGED <<pZBounds, params, currentZ, updatePending, previewTimers,
                 interactionTimeoutRef, sliderMouse, sliderTouches,
                 sinceChange>>

\* DragInput.handleMouseMove -> onChange -> handleChange -> onParameterChange:
\* a new parameters object, so the effect runs
DragMouseMove(v) ==
  /\ dragCtl
  /\ params' = v
  /\ sinceChange' = IF v # params THEN 0 ELSE sinceChange
  /\ RunEffect(currentZ, v, isUserInteracting, pZBounds)
  /\ ParUnchangedInteraction
  /\ reqNow' = FALSE
  /\ lastReq' = NoSliceRequest
  /\ UNCHANGED <<pZBounds, currentZ, sliderMouse, sliderTouches, dragCtl>>

\* DragInput.handleMouseUp: no onInteractionEnd either
DragMouseUp ==
  /\ dragCtl
  /\ dragCtl' = FALSE
  /\ ParUnchangedInteraction
  /\ reqNow' = FALSE
  /\ lastReq' = NoSliceRequest
  /\ UNCHANGED <<pZBounds, params, currentZ, updatePending, previewTimers,
                 interactionTimeoutRef, sliderMouse, sliderTouches,
                 sinceChange>>

\* a parameter committed without a drag: text field blur / Enter
\* (createBlurHandler), the engine select, the Reset button
ParamCommit(v) ==
  /\ ~dragCtl
  /\ params' = v
  /\ sinceChange' = IF v # params THEN 0 ELSE sinceChange
  /\ RunEffect(currentZ, v, isUserInteracting, pZBounds)
  /\ ParUnchangedInteraction
  /\ reqNow' = FALSE
  /\ lastReq' = NoSliceRequest
  /\ UNCHANGED <<pZBounds, currentZ, sliderMouse, sliderTouches, dragCtl>>

\* z-slider onMouseDown = handleInteractionStart
SliderMouseDown ==
  /\ pZBounds
  /\ ~sliderMouse /\ ~dragCtl
  /\ sliderMouse' = TRUE
  /\ handleInteractionStart
  /\ reqNow' = FALSE
  /\ lastReq' = NoSliceRequest
  /\ UNCHANGED <<pZBounds, params, currentZ, sliderTouches, dragCtl, sinceChange>>

\* z-slider onMouseUp = handleInteractionEnd, the press having begun on the slider
SliderMouseUp ==
  /\ pZBounds
  /\ EndFits
  /\ sliderMouse
  /\ sliderMouse' = FALSE
  /\ handleInteractionEnd
  /\ reqNow' = FALSE
  /\ lastReq' = NoSliceRequest
  /\ UNCHANGED <<pZBounds, params, currentZ, sliderTouches, dragCtl, sinceChange>>

\* z-slider onMouseUp for a press that began elsewhere and is released over the slider
SliderStrayMouseUp ==
  /\ pZBounds
  /\ ~sliderMouse /\ ~dragCtl
  /\ netCalls > -MaxStray
  /\ EndFits
  /\ handleInteractionEnd
  /\ reqNow' = FALSE
  /\ lastReq' = NoSliceRequest
  /\ UNCHANGED <<pZBounds, params, currentZ, sliderMouse, sliderTouches,
                 dragCtl, sinceChange>>

\* z-slider onTouchStart = handleInteractionStart
SliderTouchStart ==
  /\ pZBounds
  /\ sliderTouches < MaxTouches
  /\ sliderTouches' = sliderTouches + 1
  /\ handleInteractionStart
  /\ reqNow' = FALSE
  /\ lastReq' = NoSliceRequest
  /\ UNCHANGED <<pZBounds, params, currentZ, sliderMouse, dragCtl, sinceChange>>

\* z-slider onTouchEnd = handleInteractionEnd
SliderTouchEnd ==
  /\ pZBounds
  /\ EndFits
  /\ sliderTouches > 0
  /\ sliderTouches' = sliderTouches - 1
  /\ handleInteractionEnd
  /\ reqNow' = FALSE
  /\ lastReq' = NoSliceRequest
  /\ UNCHANGED <<pZBounds, params, currentZ, sliderMouse, dragCtl, sinceChange>>

\* z-slider onChange = handleZChange (pointer drag or keyboard)
SliderChange(z) ==
  /\ pZBounds
  /\ z # currentZ
  /\ currentZ' = z
  /\ sinceChange' = 0
  /\ RunEffect(z, params, isUserInteracting, pZBounds)
  /\ ParUnchangedInteraction
  /\ reqNow' = FALSE
  /\ lastReq' = NoSliceRequest
  /\ UNCHANGED <<pZBounds, params, sliderMouse, sliderTouches, dragCtl>>

\* the timeout callback of handleInteractionEnd fires; if the flag changes,
\* the re-render runs the parameter effect
EndTimerFires ==
  /\ endTimers[0] > 0
  /\ endTimers' = [endTimers EXCEPT ![0] = @ - 1]
  /\ isUserInteracting' = EndCallback(interactionCount, isUserInteracting)
  /\ IF isUserInteracting' # isUserInteracting
       THEN RunEffect(currentZ, params, isUserInteracting', pZBounds)
       ELSE UNCHANGED <<previewTimers, interactionTimeoutRef, updatePending>>
  /\ reqNow' = FALSE
  /\ lastReq' = NoSliceRequest
  /\ UNCHANGED <<pZBounds, params, currentZ, interactionCount, sliderMouse,
                 sliderTouches, dragCtl, netCalls, sinceChange>>

\* the preview effect's timeout fires: fetchSlicePreview(currentZ) with the
\* values captured when the timer was set
PreviewTimerFires(t) ==
  /\ t \in previewTimers
  /\ t.due = 0
  /\ previewTimers' = previewTimers \ {t}
  /\ updatePending' = FALSE
  /\ lastReq' = [z |-> t.z, p |-> t.p]
  /\ reqNow' = TRUE
  /\ ParUnchangedInteraction
  /\ UNCHANGED <<pZBounds, params, currentZ, interactionTimeoutRef, sliderMouse,
                 sliderTouches, dragCtl, sinceChange>>

\* 100 ms pass; a timeout that is due fires first
Tick ==
  /\ \A t \in previewTimers : t.due > 0
  /\ endTimers[0] = 0
  /\ previewTimers' = {[t EXCEPT !.due = @ - 1] : t \in previewTimers}
  /\ endTimers' = [d \in 0..EndDelay |-> IF d = EndDelay THEN 0 ELSE endTimers[d + 1]]
  /\ sinceChange' = IF sinceChange < PreviewDelay THEN sinceChange + 1 ELSE sinceChange
  /\ reqNow' = FALSE
  /\ lastReq' = NoSliceRequest
  /\ UNCHANGED <<pZBounds, params, currentZ, interactionCount, isUserInteracting,
                 updatePending, interactionTimeoutRef, sliderMouse,
                 sliderTouches, dragCtl, netCalls>>

(***************************************************************************)
(* Part 3 - map editor: selection, hover and marquee (MapEditor)           *)
(***************************************************************************)
VARIABLES
  doc,                 \* DOM: the selectable nodes under the content group
  attr,                \* DOM: per node, the attributes the editor rewrites
  selectedElements,    \* MapEditor: selectedElements (array, in selection order)
  transformEl,         \* MapEditor: transformElRef.current (NULL or a node)
  attached,            \* svg.js: the nodes with draggable/selectize/resize enabled
  hoveredElement,      \* MapEditor: hoveredElement (NULL or an element)
  hoverClones,         \* DOM: sources of the .hover-overlay clones in the hover layer
  activeTool,          \* MapEditor: activeTool
  isSpacePressed,      \* MapEditor: isSpacePressed
  previousTool,        \* MapEditor: previousTool
  toolAtSpace,         \* history: the tool that was active when Space went down
  isDragging,          \* MapEditor: isDragging
  isMarquee,           \* MapEditor: isMarquee
  marqueeStart,        \* MapEditor: marqueeStartRef.current while a marquee is open
  justFinishedMarquee, \* MapEditor: justFinishedMarquee
  guardTimers,         \* pending 100 ms timeouts of handleMouseUp
  pressTarget,         \* the mouse button is held, and what it was pressed on
  clickPending,        \* the click event the browser dispatches right after a mouse-up
  lastOp               \* history: the selection operation the last step handled, if any

edVars == <<doc, attr, selectedElements, transformEl, attached, hoveredElement,
            hoverClones, activeTool, isSpacePressed, previousTool, toolAtSpace, isDragging,
            isMarquee, marqueeStart, justFinishedMarquee, guardTimers,
            pressTarget, clickPending, lastOp>>

\* selectable elements of the loaded document, in document order
NumElems == 2
\* document-space coordinates run over 0..GridMax on both axes
GridMax == 1
\* how often the 1.5x selection width may be applied on top of itself
MaxMult == 2
\* pending guard timeouts kept at once
MaxGuardTimers == 2
\* nodes that duplicateSelected has created and that are still referenced
MaxClones == 1

Elems == 1..NumElems
\* the nodes shape.clone() creates
Clones == (NumElems + 1)..(NumElems + MaxClones)
Nodes == Elems \cup Clones
Grid == 0..GridMax
Points == [x : Grid, y : Grid]

\* a stroke-width attribute value base * 1.5^k; NoWidth is the absent attribute
NoWidth == [base |-> 0, k |-> 0]
DefaultWidth == [base |-> 1, k |-> 0]
\* the absent string attribute (getAttribute yields null, which is falsy like "")
NoAttr == ""

\* (parseFloat(w) * 1.5).toString()
Times15(w) == [w EXCEPT !.k = @ + 1]

\* the attributes every selectable element carries once the document is
\* loaded: stroke defaulted to "#000000", stroke-width normalised
LoadedStroke(e) == IF e % 2 = 0 THEN "#ff0000" ELSE "#000000"
LoadedWidth(e) == [base |-> IF e % 3 = 2 THEN 2 ELSE 1, k |-> 0]

\* elementBoundsInSvg: the document-space bounding box of each element
BBox(e) ==
  CASE e = 1 -> [minX |-> 0, maxX |-> 0, minY |-> 0, maxY |-> 0]
    [] e = 2 -> [minX |-> 1, maxX |-> GridMax, minY |-> 1, maxY |-> GridMax]
    [] OTHER -> [minX |-> GridMax, maxX |-> GridMax, minY |-> 0, maxY |-> 1]

\* svgUtils.intersectsRect(a, b): a is a bounds record, b a rectangle
intersectsRectNoBottom(a, b) ==
  ~(a.maxX < b.x \/ a.minX > b.x + b.width \/ a.maxY < b.y)

\* a variant that takes rectangles sharing only boundary points as apart
intersectsRectStrict(a, b) ==
  ~(a.maxX <= b.x \/ a.minX >= b.x + b.width \/ a.maxY <= b.y \/ a.minY >= b.y + b.height)

intersectsRect(a, b) ==
  ~(a.maxX < b.x \/ a.minX > b.x + b.width \/ a.maxY < b.y \/ a.minY > b.y + b.height)

Min(a, b) == IF a < b THEN a ELSE b
Abs(a) == IF a < 0 THEN 0 - a ELSE a

\* the rectangle handleMouseUp builds from the press and release points
MarqueeRect(start, end) ==
  [x |-> Min(start.x, end.x), y |-> Min(start.y, end.y),
   width |-> Abs(end.x - start.x), height |-> Abs(end.y - start.y)]

\* history: the elements of the document whose bounding box shares a point
\* with the closed rectangle, by the geometry alone
BoxHits(rect) ==
  {e \in doc :
     \E x \in Grid, y \in Grid :
       /\ BBox(e).minX <= x /\ x <= BBox(e).maxX
       /\ BBox(e).minY <= y /\ y <= BBox(e).maxY
       /\ rect.x <= x /\ x <= rect.x + rect.width
       /\ rect.y <= y /\ y <= rect.y + rect.height}

Includes(s, e) == \E i \in 1..Len(s) : s[i] = e
Range(s) == {s[i] : i \in 1..Len(s)}
Without(s, e) == SelectSeq(s, LAMBDA x : x # e)
LastOf(s) == IF Len(s) > 0 THEN s[Len(s)] ELSE NULL

\* Array.from(querySelectorAll(...)): the nodes of a set in document order
RECURSIVE DocOrder(_)
DocOrder(S) ==
  IF S = {} THEN <<>>
  ELSE LET m == CHOOSE x \in S : \A y \in S : x <= y
       IN <<m>> \o DocOrder(S \ {m})

\* the elements performMarqueeSelect collects for a rectangle, in document order
MarqueeHits(d, rect) == DocOrder({e \in d : intersectsRect(BBox(e), rect)})

\* the points a press or release is enumerated at: every point of the canvas
\* when its position is read (a marquee corner), else one point of the
\* element under the pointer, since no handler reads it
EventPoints(readsPoint, over) ==
  IF readsPoint THEN (IF over = NULL THEN Points ELSE {})
  ELSE IF over = NULL THEN {[x |-> 0, y |-> 0]}
  ELSE {[x |-> BBox(over).minX, y |-> BBox(over).minY]}

\* the editor state the selection helpers read and write
EdState == [doc |-> doc, attr |-> attr, hov |-> hoveredElement, clones |-> hoverClones,
            tr |-> transformEl, att |-> attached, sel |-> selectedElements]

\* enableTransformFor(el) (svg.js is enabled once the editor is mounted):
\* nothing when el already carries the handles, else the previous element is
\* detached and el (or nothing) attached
enableTransformFor(st, el) ==
  IF st.tr = el THEN st
  ELSE [st EXCEPT !.tr = el,
                  !.att = (st.att \ {st.tr}) \cup (IF el = NULL THEN {} ELSE {el})]

\* disableTransformFor(el)
disableTransformFor(st, el) ==
  IF el = NULL THEN st ELSE [st EXCEPT !.att = st.att \ {el}]

\* the attribute writes of applySelectionStyle
SelectedAttr(a) ==
  [a EXCEPT !.dStroke = IF a.dStroke = NoAttr
                          THEN (IF a.stroke # NoAttr THEN a.stroke ELSE "#000000")
                          ELSE a.dStroke,
            !.dWidth = IF a.dWidth = NoWidth
                         THEN (IF a.width # NoWidth THEN a.width ELSE DefaultWidth)
                         ELSE a.dWidth,
            !.selected = TRUE,
            !.stroke = "#00a3ff",
            !.width = Times15(IF a.width # NoWidth THEN a.width ELSE DefaultWidth),
            !.filter = TRUE]

\* applySelectionStyle(el); hov is the hoveredElement its closure holds
applySelectionStyleKeepsHover(st, el, hov) ==
  [st EXCEPT !.attr[el] = SelectedAttr(st.attr[el])]

applySelectionStyle(st, el, hov) ==
  [st EXCEPT !.attr[el] = SelectedAttr(st.attr[el]),
             !.clones = IF hov = el THEN {} ELSE st.clones,
             !.hov = IF hov = el THEN NULL ELSE st.hov]

\* the attribute writes of removeSelectionStyle
RestoredAttrKeepWidth(a) ==
  [a EXCEPT !.selected = FALSE,
            !.stroke = IF a.dStroke # NoAttr THEN a.dStroke ELSE "#000000",
            !.filter = FALSE]

RestoredAttr(a) ==
  [a EXCEPT !.selected = FALSE,
            !.stroke = IF a.dStroke # NoAttr THEN a.dStroke ELSE "#000000",
            !.width = IF a.dWidth # NoWidth THEN a.dWidth ELSE DefaultWidth,
            !.filter = FALSE]

\* removeSelectionStyle(el)
removeSelectionStyle(st, el) ==
  [st EXCEPT !.attr[el] = RestoredAttr(st.attr[el])]

\* a variant that leaves the data-selected marker on the element
ClearedAttrKeepsMarker(a) ==
  [a EXCEPT !.stroke = IF a.dStroke # NoAttr THEN a.dStroke
                       ELSE IF a.stroke # NoAttr THEN a.stroke ELSE "#000000",
            !.width = IF a.dWidth # NoWidth THEN a.dWidth
                      ELSE IF a.width # NoWidth THEN a.width ELSE DefaultWidth,
            !.filter = FALSE]

\* the attribute writes of clearSelection for one selected element
ClearedAttr(a) ==
  [a EXCEPT !.selected = FALSE,
            !.stroke = IF a.dStroke # NoAttr THEN a.dStroke
                       ELSE IF a.stroke # NoAttr THEN a.stroke ELSE "#000000",
            !.width = IF a.dWidth # NoWidth THEN a.dWidth
                      ELSE IF a.width # NoWidth THEN a.width ELSE DefaultWidth,
            !.filter = FALSE]

\* clearSelection(); sel is the selectedElements its closure holds
clearSelection(st, sel) ==
  [disableTransformFor(st, st.tr) EXCEPT
     !.attr = [e \in Nodes |-> IF Includes(sel, e) THEN ClearedAttr(st.attr[e])
                               ELSE st.attr[e]],
     !.hov = NULL, !.clones = {}, !.tr = NULL, !.sel = <<>>]

RECURSIVE ApplyAll(_, _, _)
\* els.forEach((el) => applySelectionStyle(el))
ApplyAll(st, els, hov) ==
  IF els = <<>> THEN st
  ELSE ApplyAll(applySelectionStyle(st, Head(els), hov), Tail(els), hov)

RECURSIVE RemoveMissing(_, _, _)
\* prev.forEach((el) => { if (!hits.includes(el)) removeSelectionStyle(el) })
RemoveMissing(st, prev, hits) ==
  IF prev = <<>> THEN st
  ELSE RemoveMissing(IF Includes(hits, Head(prev)) THEN st
                     ELSE removeSelectionStyle(st, Head(prev)),
                     Tail(prev), hits)

RECURSIVE ToggleHitsAddOnly(_, _, _, _)
ToggleHitsAddOnly(st, hits, prevSet, hov) ==
  IF hits = <<>> THEN st
  ELSE LET el == Head(hits)
           s1 == IF el \in prevSet THEN st
                 ELSE [applySelectionStyle(st, el, hov) EXCEPT !.sel = Append(st.sel, el)]
       IN ToggleHitsAddOnly(s1, Tail(hits), prevSet, hov)

RECURSIVE ToggleHits(_, _, _, _)
\* the additive loop of performMarqueeSelect over the hits
ToggleHits(st, hits, prevSet, hov) ==
  IF hits = <<>> THEN st
  ELSE LET el == Head(hits)
           s1 == IF el \in prevSet
                   THEN [removeSelectionStyle(st, el) EXCEPT !.sel = Without(st.sel, el)]
                   ELSE [applySelectionStyle(st, el, hov) EXCEPT !.sel = Append(st.sel, el)]
       IN ToggleHits(s1, Tail(hits), prevSet, hov)

\* performMarqueeSelect(rect, additive): the updater it hands to setSelectedElements
performMarqueeSelect(st, rect, additive, hov) ==
  LET hits == MarqueeHits(st.doc, rect)
      s1 == IF additive
              THEN ToggleHits(st, hits, Range(st.sel), hov)
              ELSE [ApplyAll(RemoveMissing(st, st.sel, hits), hits, hov)
                      EXCEPT !.sel = hits]
  IN enableTransformFor(s1, LastOf(s1.sel))

\* deleteSelected(); sel is the selectedElements its closure holds
deleteSelectedKeepsSelection(st, sel) ==
  [st EXCEPT !.doc = st.doc \ Range(sel)]

deleteSelected(st, sel) ==
  [st EXCEPT !.doc = st.doc \ Range(sel), !.sel = <<>>]

\* the attributes of a node that does not exist
NoNode == [stroke |-> NoAttr, width |-> NoWidth, dStroke |-> NoAttr, dWidth |-> NoWidth,
           selected |-> FALSE, filter |-> FALSE]

\* a node the document or the editor still holds
Live(st, n) ==
  n \in st.doc \/ n \in Range(st.sel) \/ n = st.tr \/ n \in st.att

\* the nodes shape.clone() returns for the elements of sel, in order: new
\* nodes carrying a copy of every attribute of their source
FreshClones(st, sel) ==
  SubSeq(DocOrder({c \in Clones : ~Live(st, c)}), 1, Len(sel))

\* duplicateSelected(); sel is the selectedElements its closure holds.
\* @svgdotjs/svg.js (3.x) clone() returns the copy without inserting it into
\* the DOM, and nothing here adds it: the document is left as it was
duplicateSelected(st, sel) ==
  LET duplicates == FreshClones(st, sel)
      s0 == [st EXCEPT !.attr = [n \in Nodes |->
                         IF \E i \in 1..Len(sel) : duplicates[i] = n
                           THEN st.attr[sel[CHOOSE i \in 1..Len(sel) : duplicates[i] = n]]
                           ELSE st.attr[n]]]
      s1 == clearSelection(s0, sel)
      s2 == [s1 EXCEPT !.attr = [n \in Nodes |->
                         IF Includes(duplicates, n) THEN SelectedAttr(s1.attr[n])
                         ELSE s1.attr[n]],
                       !.sel = duplicates]
  IN IF Len(sel) = 0 THEN st
     ELSE enableTransformFor(s2, LastOf(duplicates))

\* write an editor state back; a node outside the document that nothing
\* refers to any more is gone
Commit(st) ==
  /\ doc' = st.doc
  /\ attr' = [n \in Nodes |-> IF Live(st, n) THEN st.attr[n] ELSE NoNode]
  /\ hoveredElement' = st.hov
  /\ hoverClones' = st.clones
  /\ transformEl' = st.tr
  /\ attached' = st.att
  /\ selectedElements' = st.sel

NoPress == [down |-> FALSE, target |-> NULL]
NoClick == [on |-> FALSE, target |-> NULL, shift |-> FALSE]
NoTool == "none"
NoOp == [op |-> "none", el |-> NULL, shift |-> FALSE, hits |-> {}, still |-> FALSE,
         prev |-> {}, hov |-> NULL]

EdInit ==
  /\ doc = Elems
  /\ attr = [n \in Nodes |->
              IF n \in Elems
                THEN [stroke |-> LoadedStroke(n), width |-> LoadedWidth(n),
                      dStroke |-> NoAttr, dWidth |-> NoWidth,
                      selected |-> FALSE, filter |-> FALSE]
                ELSE NoNode]
  /\ selectedElements = <<>>
  /\ transformEl = NULL
  /\ attached = {}
  /\ hoveredElement = NULL
  /\ hoverClones = {}
  /\ activeTool = "select"
  /\ isSpacePressed = FALSE
  /\ previousTool = "select"
  /\ toolAtSpace = NoTool
  /\ isDragging = FALSE
  /\ isMarquee = FALSE
  /\ marqueeStart = [x |-> 0, y |-> 0]
  /\ justFinishedMarquee = FALSE
  /\ guardTimers = 0
  /\ pressTarget = NoPress
  /\ clickPending = NoClick
  /\ lastOp = NoOp

EdSelectionUnchanged ==
  UNCHANGED <<doc, attr, selectedElements, transformEl, attached, hoveredElement,
              hoverClones>>

EdToolsUnchanged == UNCHANGED <<activeTool, isSpacePressed, previousTool, toolAtSpace>>

EdMarqueeUnchanged ==
  UNCHANGED <<isMarquee, marqueeStart, justFinishedMarquee, guardTimers>>

\* localHandleHover, mouseenter on element t (it returns at once on a
\* selected element and on the element already hovered)
HoverEnter(t) ==
  /\ ~clickPending.on
  /\ t \in doc
  /\ ~attr[t].selected /\ t # hoveredElement
  /\ hoveredElement' = t /\ hoverClones' = {t}
  /\ lastOp' = NoOp
  /\ UNCHANGED <<doc, attr, selectedElements, transformEl, attached, isDragging,
                 pressTarget, clickPending>>
  /\ EdToolsUnchanged
  /\ EdMarqueeUnchanged

\* localHandleHover, mouseleave on element t (it returns at once on a
\* selected element and on an element that is not the hovered one)
HoverLeave(t) ==
  /\ ~clickPending.on
  /\ t \in doc
  /\ ~attr[t].selected /\ t = hoveredElement
  /\ hoveredElement' = NULL /\ hoverClones' = {}
  /\ lastOp' = NoOp
  /\ UNCHANGED <<doc, attr, selectedElements, transformEl, attached, isDragging,
                 pressTarget, clickPending>>
  /\ EdToolsUnchanged
  /\ EdMarqueeUnchanged

\* handleMouseDown: the button goes down at point p, on element hit or
\* (hit = NULL) on the empty canvas
MouseDown(hit, p) ==
  /\ ~clickPending.on
  /\ ~pressTarget.down
  /\ hit \in doc \cup {NULL}
  /\ p \in EventPoints(activeTool = "select" /\ ~isSpacePressed /\ hit = NULL, hit)
  /\ pressTarget' = [down |-> TRUE, target |-> hit]
  /\ IF activeTool = "select" /\ ~isSpacePressed /\ hit = NULL
       THEN /\ isMarquee' = TRUE
            /\ marqueeStart' = p
            /\ UNCHANGED isDragging
       ELSE /\ isDragging' = IF activeTool = "pan" \/ isSpacePressed THEN TRUE ELSE isDragging
            /\ UNCHANGED <<isMarquee, marqueeStart>>
  /\ lastOp' = NoOp
  /\ UNCHANGED <<justFinishedMarquee, guardTimers, clickPending>>
  /\ EdSelectionUnchanged
  /\ EdToolsUnchanged

\* the button is released at point q over element over (NULL: empty canvas):
\* handleMouseUp runs when the document listener is attached (isDragging or
\* isMarquee); the browser then dispatches a click to the element pressed and
\* released on, else to the canvas (always the canvas after a marquee, which
\* was pressed there, so a marquee's release is enumerated over the canvas)
MouseUp(over, q, shift) ==
  /\ pressTarget.down
  /\ over \in doc \cup {NULL}
  /\ q \in EventPoints(isMarquee, over)
  /\ pressTarget' = NoPress
  /\ clickPending' = [on |-> TRUE,
                      target |-> IF pressTarget.target = over THEN over ELSE NULL,
                      shift |-> shift]
  /\ IF isMarquee
       THEN LET rect == MarqueeRect(marqueeStart, q)
                st == performMarqueeSelect(EdState, rect, shift, hoveredElement)
            IN /\ guardTimers < MaxGuardTimers
               /\ \A e \in Nodes : st.attr[e].width.k <= MaxMult
               /\ isMarquee' = FALSE
               /\ marqueeStart' = [x |-> 0, y |-> 0]  \* stale until the next press overwrites it
               /\ justFinishedMarquee' = TRUE
               /\ guardTimers' = guardTimers + 1
               /\ Commit(st)
               /\ lastOp' = [op |-> "marquee", el |-> NULL, shift |-> shift,
                             hits |-> BoxHits(rect), still |-> (q = marqueeStart),
                             prev |-> Range(selectedElements), hov |-> hoveredElement]
               /\ UNCHANGED isDragging
       ELSE /\ isDragging' = IF isDragging /\ (activeTool = "pan" \/ isSpacePressed)
                               THEN FALSE ELSE isDragging
            /\ lastOp' = NoOp
            /\ EdMarqueeUnchanged
            /\ EdSelectionUnchanged
  /\ EdToolsUnchanged

\* handleSvgClick(event) for a click on target (NULL: no selectable element hit)
handleSvgClick(target, shift) ==
  IF activeTool = "pan" \/ isDragging \/ isMarquee \/ justFinishedMarquee
    THEN EdSelectionUnchanged
  ELSE IF target = NULL
    THEN IF ~shift
           THEN Commit(clearSelection(EdState, selectedElements))
           ELSE EdSelectionUnchanged
  ELSE LET alreadySelected == Includes(selectedElements, target)
       IN IF shift
            THEN IF alreadySelected
                   THEN LET s1 == removeSelectionStyle(EdState, target)
                            next == Without(s1.sel, target)
                        IN Commit(enableTransformFor([s1 EXCEPT !.sel = next], LastOf(next)))
                   ELSE LET s1 == applySelectionStyle(EdState, target, hoveredElement)
                        IN Commit(enableTransformFor(
                                    [s1 EXCEPT !.sel = Append(s1.sel, target)], target))
          ELSE IF alreadySelected /\ Len(selectedElements) = 1
            THEN EdSelectionUnchanged
          ELSE LET s1 == clearSelection(EdState, selectedElements)
                   s2 == applySelectionStyle(s1, target, hoveredElement)
               IN Commit(enableTransformFor([s2 EXCEPT !.sel = <<target>>], target))

\* the click reaches handleSvgClick and passes its guards
ClickHandled ==
  activeTool = "select" /\ ~(isDragging \/ isMarquee \/ justFinishedMarquee)

\* handleCanvasClick: the click the browser delivers after a mouse-up
Click ==
  /\ clickPending.on
  /\ clickPending' = NoClick
  /\ IF activeTool = "select"
       THEN handleSvgClick(clickPending.target, clickPending.shift)
       ELSE EdSelectionUnchanged
  /\ lastOp' = IF ClickHandled
                 THEN [op |-> IF clickPending.target = NULL THEN "emptyClick" ELSE "click",
                       el |-> clickPending.target, shift |-> clickPending.shift,
                       hits |-> {}, still |-> FALSE, prev |-> Range(selectedElements),
                       hov |-> hoveredElement]
                 ELSE NoOp
  /\ UNCHANGED <<isDragging, pressTarget>>
  /\ EdToolsUnchanged
  /\ EdMarqueeUnchanged

\* the timeout of handleMouseUp: setJustFinishedMarquee(false)
GuardTimerFires ==
  /\ ~clickPending.on
  /\ lastOp' = NoOp
  /\ guardTimers > 0
  /\ guardTimers' = guardTimers - 1
  /\ justFinishedMarquee' = FALSE
  /\ UNCHANGED <<isMarquee, marqueeStart, isDragging, pressTarget, clickPending>>
  /\ EdSelectionUnchanged
  /\ EdToolsUnchanged

\* handleKeyDown, Escape (nothing is being drawn): clearSelection()
KeyEscape ==
  /\ ~clickPending.on
  /\ Commit(clearSelection(EdState, selectedElements))
  /\ lastOp' = NoOp
  /\ UNCHANGED <<isDragging, pressTarget, clickPending>>
  /\ EdToolsUnchanged
  /\ EdMarqueeUnchanged

\* handleKeyDown, Ctrl/Cmd+A: select every selectable element
KeySelectAll ==
  /\ ~clickPending.on
  /\ LET allElements == DocOrder(doc)
         s1 == clearSelection(EdState, selectedElements)
         s2 == [s1 EXCEPT !.attr = [e \in Nodes |-> IF e \in doc THEN SelectedAttr(s1.attr[e])
                                                      ELSE s1.attr[e]],
                          !.sel = allElements]
     IN Commit(IF Len(allElements) > 0
                 THEN enableTransformFor(s2, LastOf(allElements)) ELSE s2)
  /\ lastOp' = NoOp
  /\ UNCHANGED <<isDragging, pressTarget, clickPending>>
  /\ EdToolsUnchanged
  /\ EdMarqueeUnchanged

\* handleKeyDown, Space going down: temporary pan mode
KeySpaceDown ==
  /\ ~clickPending.on
  /\ lastOp' = NoOp
  /\ ~isSpacePressed
  /\ isSpacePressed' = TRUE
  /\ toolAtSpace' = activeTool
  /\ IF activeTool # "pan"
       THEN previousTool' = activeTool /\ activeTool' = "pan"
       ELSE UNCHANGED <<previousTool, activeTool>>
  /\ UNCHANGED <<isDragging, pressTarget, clickPending>>
  /\ EdSelectionUnchanged
  /\ EdMarqueeUnchanged

\* handleKeyUp, Space released: back to the previous tool
KeySpaceUp ==
  /\ ~clickPending.on
  /\ lastOp' = NoOp
  /\ isSpacePressed
  /\ isSpacePressed' = FALSE
  /\ toolAtSpace' = NoTool
  /\ activeTool' = previousTool
  /\ UNCHANGED <<previousTool, isDragging, pressTarget, clickPending>>
  /\ EdSelectionUnchanged
  /\ EdMarqueeUnchanged

\* handleKeyDown, the tool shortcuts v (select) and h (pan)
KeyTool(t) ==
  /\ ~clickPending.on
  /\ lastOp' = NoOp
  /\ ~isSpacePressed
  /\ activeTool' = t
  /\ UNCHANGED <<isSpacePressed, previousTool, toolAtSpace, isDragging, pressTarget, clickPending>>
  /\ EdSelectionUnchanged
  /\ EdMarqueeUnchanged

\* the toolbar buttons: setActiveTool(t), whether or not Space is held
ToolbarTool(t) ==
  /\ ~clickPending.on
  /\ lastOp' = NoOp
  /\ activeTool' = t
  /\ UNCHANGED <<isSpacePressed, previousTool, toolAtSpace, isDragging, pressTarget,
                 clickPending>>
  /\ EdSelectionUnchanged
  /\ EdMarqueeUnchanged

\* handleKeyDown, Delete or Backspace with a selection: deleteSelected()
KeyDelete ==
  /\ ~clickPending.on
  /\ Len(selectedElements) > 0
  /\ Commit(deleteSelected(EdState, selectedElements))
  /\ lastOp' = NoOp
  /\ UNCHANGED <<isDragging, pressTarget, clickPending>>
  /\ EdToolsUnchanged
  /\ EdMarqueeUnchanged

\* handleKeyDown, Ctrl/Cmd+D with a selection: duplicateSelected()
KeyDuplicate ==
  /\ ~clickPending.on
  /\ Len(selectedElements) > 0
  /\ Cardinality({c \in Clones : ~Live(EdState, c)}) >= Len(selectedElements)
  /\ LET st == duplicateSelected(EdState, selectedElements)
     IN /\ \A n \in Nodes : st.attr[n].width.k <= MaxMult
        /\ Commit(st)
  /\ lastOp' = NoOp
  /\ UNCHANGED <<isDragging, pressTarget, clickPending>>
  /\ EdToolsUnchanged
  /\ EdMarqueeUnchanged

\* the attributes of the path that replaces a converted shape: the
\* presentation attributes convertToPath copies, and the data-* markers too
\* when the conversion copies every attribute of its source
PathAttr(a, all) ==
  IF all THEN a
  ELSE [NoNode EXCEPT !.stroke = a.stroke, !.width = a.width]

\* convertToPath(); sel is the selectedElements its closure holds, converted
\* the selected shapes that have a toPath, all whether every attribute is
\* copied. Each converted shape leaves the document and a new path takes its
\* place; the selection list and the transform target are not touched
convertToPath(st, sel, converted, all) ==
  LET sources == DocOrder(converted)
      paths == FreshClones(st, sources)
  IN [st EXCEPT
        !.doc = (st.doc \ converted) \cup Range(paths),
        !.attr = [n \in Nodes |->
                   IF Includes(paths, n)
                     THEN PathAttr(st.attr[sources[CHOOSE i \in 1..Len(paths) : paths[i] = n]],
                                   all)
                     ELSE st.attr[n]]]

\* handleKeyDown, Ctrl/Cmd+Shift+P: convertToPath()
ConvertToPath(converted, all) ==
  /\ ~clickPending.on
  /\ Len(selectedElements) > 0
  /\ converted # {}
  /\ converted \subseteq Range(selectedElements) \cap doc
  /\ Cardinality({c \in Clones : ~Live(EdState, c)}) >= Cardinality(converted)
  /\ Commit(convertToPath(EdState, selectedElements, converted, all))
  /\ lastOp' = NoOp
  /\ UNCHANGED <<isDragging, pressTarget, clickPending>>
  /\ EdToolsUnchanged
  /\ EdMarqueeUnchanged

\* the document-level mousemove and mouseup listeners are registered: the
\* effect adds them when isDragging or isMarquee and removes them otherwise
globalListeners == isDragging \/ isMarquee

\* the shapes updateUnifiedOverlay draws into the overlay group: the
\* selection rectangle, four corner handles and the rotation handle
OverlayShapes ==
  {"unified-selection-rect", "unified-handle-0", "unified-handle-1",
   "unified-handle-2", "unified-handle-3", "unified-rotation-handle"}

\* the effect on selectedElements: the unified overlay is drawn while the
\* selection is non-empty (and has bounds), removed when it is empty
unifiedOverlay ==
  IF \E e \in Range(selectedElements) : e \in doc THEN OverlayShapes ELSE {}

\* the SVG the editor loaded: its drawable elements, nothing else
LoadedSvg == [content |-> Elems, hover |-> {}, overlay |-> {}]

\* handleExport(format): svgRef.current.outerHTML, the whole editor canvas;
\* its drawable elements are those of the content group, of the hover layer
\* and of the overlay group
handleExport ==
  [content |-> doc, hover |-> hoverClones, overlay |-> unifiedOverlay]

(***************************************************************************)
(* Part 4 - map editor: zoom (MapEditor view, mapStore)                    *)
(***************************************************************************)
VARIABLES
  zoom,         \* MapEditor: zoom, in hundredths
  storeZoom     \* mapStore: state.ui.zoom, in hundredths

viewVars == <<zoom, storeZoom>>

\* zoom factors are kept in hundredths: 1 is 100, the clamp runs from 0.1 to 5
ZoomOne == 100
ZoomMin == 10
ZoomMax == 500

Max(a, b) == IF a > b THEN a ELSE b

\* the zoom values handed to the store's setZoom
ZoomInputs == {0, 5, ZoomMin, 250, ZoomMax, 501, 1000}

\* the updater of handleZoom: prevZoom * zoomFactor, clamped
ZoomedUnclamped(prevZoom, direction) ==
  IF direction = "in" THEN (prevZoom * 11) \div 10 ELSE (prevZoom * 9) \div 10

Zoomed(prevZoom, direction) ==
  Max(ZoomMin, Min(ZoomMax,
      IF direction = "in" THEN (prevZoom * 11) \div 10 ELSE (prevZoom * 9) \div 10))

ViewInit ==
  /\ zoom = ZoomOne
  /\ storeZoom = ZoomOne

\* handleZoom(direction, event)
handleZoom(direction) ==
  /\ zoom' = Zoomed(zoom, direction)
  /\ UNCHANGED storeZoom

\* handleKeyDown, "+" / "=" / "-": zooms only when nothing is selected
KeyZoom(direction) ==
  /\ ~clickPending.on
  /\ Len(selectedElements) = 0
  /\ handleZoom(direction)
  /\ UNCHANGED edVars

\* handleWheel: zooms with the Zoom tool or with Ctrl held
Wheel(direction, ctrlKey) ==
  /\ ~clickPending.on
  /\ activeTool = "zoom" \/ ctrlKey
  /\ handleZoom(direction)
  /\ UNCHANGED edVars

\* handleCanvasClick with the Zoom tool: in, or out with Shift
ZoomClick(shift) ==
  /\ ~clickPending.on
  /\ activeTool = "zoom"
  /\ handleZoom(IF shift THEN "out" ELSE "in")
  /\ UNCHANGED edVars

\* resetView(): Ctrl/Cmd+0 and the View menu
ResetView ==
  /\ ~clickPending.on
  /\ zoom' = ZoomOne
  /\ UNCHANGED storeZoom
  /\ UNCHANGED edVars

\* mapStore.setZoom(z)
StoreSetZoom(z) ==
  /\ storeZoom' = Max(ZoomMin, Min(ZoomMax, z))
  /\ UNCHANGED zoom
  /\ UNCHANGED edVars

\* mapStore.resetView()
StoreResetView ==
  /\ storeZoom' = ZoomOne
  /\ UNCHANGED zoom
  /\ UNCHANGED edVars

(***************************************************************************)
(* Part 5 - hand-off of a pending map to the editor page                   *)
(* Texts are numbered: NULL is "no value", EmptyText the empty string,     *)
(* 1..NumSvgs the SVG documents.                                           *)
(***************************************************************************)
VARIABLES
  route,         \* react-router: the current location
  editMapData,   \* localStorage item "editMapData"
  svgToEdit,     \* sessionStorage item "svgToEdit"
  initialSvg,    \* MapEditorPage: the initialSvg prop given to MapEditor
  mapMetadata    \* MapEditorPage: the mapMetadata prop given to MapEditor

pageVars == <<route, editMapData, svgToEdit, initialSvg, mapMetadata>>

\* number of distinct SVG documents
NumSvgs == 3

SvgTexts == 1..NumSvgs

EmptyText == -1

Routes == {"/", "/generate", "/editor"}

\* a storage item that was never set, or was removed
NoItem == [has |-> FALSE, text |-> <<>>]

\* JavaScript truthiness of getItem's result (null and "" are falsy)
Truthy(item) == item.has /\ item.text # <<EmptyText>>

\* JSON.stringify of the hand-off record
JSONstringify(mapData) ==
  <<"{", mapData.svgContent, mapData.originalFileName, "}">>

\* JSON.parse: throws unless the text is a serialised object
JSONparse(text) ==
  IF Len(text) = 4 /\ text[1] = "{" /\ text[4] = "}"
  THEN [threw |-> FALSE, svgContent |-> text[2], originalFileName |-> text[3]]
  ELSE [threw |-> TRUE, svgContent |-> NULL, originalFileName |-> NULL]

\* a variant of MapEditorPage that looks at the session stash first
MapEditorPagePrefersSession(mapDataFromStorage, svgFromSession) ==
  IF Truthy(svgFromSession)
  THEN [initialSvg |-> svgFromSession.text[1], mapMetadata |-> NULL]
  ELSE IF Truthy(mapDataFromStorage)
  THEN LET parsedData == JSONparse(mapDataFromStorage.text)
       IN IF parsedData.threw
          THEN [initialSvg |-> NULL, mapMetadata |-> NULL]
          ELSE [initialSvg |-> parsedData.svgContent,
                mapMetadata |-> parsedData.originalFileName]
  ELSE [initialSvg |-> NULL, mapMetadata |-> NULL]

\* MapEditorPage: the props computed from the two stores at render
MapEditorPage(mapDataFromStorage, svgFromSession) ==
  IF Truthy(mapDataFromStorage)
  THEN LET parsedData == JSONparse(mapDataFromStorage.text)
       IN IF parsedData.threw
          THEN [initialSvg |-> NULL, mapMetadata |-> NULL]
          ELSE [initialSvg |-> parsedData.svgContent,
                mapMetadata |-> parsedData.originalFileName]
  ELSE IF Truthy(svgFromSession)
  THEN [initialSvg |-> svgFromSession.text[1], mapMetadata |-> NULL]
  ELSE [initialSvg |-> NULL, mapMetadata |-> NULL]

PageInit ==
  /\ route = "/"
  /\ editMapData = NoItem
  /\ svgToEdit = NoItem
  /\ initialSvg = NULL
  /\ mapMetadata = NULL

\* navigate(r): the route element is rendered; the editor page reads the
\* stores as they are after the step
navigate(r) ==
  /\ route' = r
  /\ IF r = "/editor"
     THEN LET props == MapEditorPage(editMapData', svgToEdit')
          IN /\ initialSvg' = props.initialSvg
             /\ mapMetadata' = props.mapMetadata
     ELSE /\ initialSvg' = NULL
          /\ mapMetadata' = NULL

\* App: a link of the navigation bar
NavLink(r) ==
  /\ r # route
  /\ UNCHANGED <<editMapData, svgToEdit>>
  /\ navigate(r)

\* Landing.handleSVGFileUpload: the picked file's text is stashed
handleSVGFileUpload(text) ==
  /\ route = "/"
  /\ svgToEdit' = [has |-> TRUE, text |-> <<text>>]
  /\ UNCHANGED editMapData
  /\ navigate("/editor")

\* MapGeneratorPage.handleEditInEditor
handleEditInEditor(svgContent) ==
  /\ route = "/generate"
  /\ svgToEdit' = [has |-> TRUE, text |-> <<svgContent>>]
  /\ UNCHANGED editMapData
  /\ navigate("/editor")

\* ProgressBar.handleEditInEditorClick: the server's SVG goes to durable
\* storage with the file name; a failed response changes nothing
handleEditInEditorClick(ok, svgText, fileName) ==
  /\ route = "/generate"
  /\ IF ok
     THEN /\ editMapData' =
               [has |-> TRUE,
                text |-> JSONstringify([svgContent |-> svgText,
                                        originalFileName |-> fileName])]
          /\ UNCHANGED svgToEdit
          /\ navigate("/editor")
     ELSE UNCHANGED pageVars

\* MapEditorPage.handleExport: both stores are cleared after the download
PageExport ==
  /\ route = "/editor"
  /\ editMapData' = NoItem
  /\ svgToEdit' = NoItem
  /\ UNCHANGED <<route, initialSvg, mapMetadata>>

\* The generator's side of the same hand-off: the request and its answer

\* "Edit in Editor" in the result panel -> handleEditInEditorClick, up to the
\* await: the file is posted to the SVG endpoint and no hook state is set
EditInEditorClick ==
  /\ currentPhase = "download"
  /\ editorFetches < MaxEditorFetches
  /\ editorFetches' = editorFetches + 1
  /\ netLog' = netLog \cup {[ep |-> "generate-map-svg", file |-> selectedFile]}
  /\ UNCHANGED <<selectedFile, loading, progress, error, status, resultImage,
                 resultBlob, resultSvgBlob, originalFileName, zBounds, zPending,
                 inflight, statusTimers, phaseAtIssue, lastEnded>>
  /\ UNCHANGED pageVars

\* handleEditInEditorClick after the await, response not ok or fetch failed:
\* console.error only
EditInEditorFails ==
  /\ editorFetches > 0
  /\ editorFetches' = editorFetches - 1
  /\ UNCHANGED <<selectedFile, loading, progress, error, status, resultImage,
                 resultBlob, resultSvgBlob, originalFileName, zBounds, zPending,
                 inflight, netLog, statusTimers, phaseAtIssue, lastEnded>>
  /\ UNCHANGED pageVars

\* handleEditInEditorClick after the await, response ok: the map goes to
\* durable storage and the editor route is shown; the generator is unmounted,
\* so its hook state is gone and starts afresh when the page is shown again
EditInEditorSucceeds(svgText) ==
  /\ editorFetches > 0
  /\ editorFetches' = editorFetches - 1
  /\ editMapData' =
       [has |-> TRUE,
        text |-> JSONstringify([svgContent |-> svgText,
                                originalFileName |-> originalFileName])]
  /\ UNCHANGED svgToEdit
  /\ navigate("/editor")
  /\ selectedFile' = NULL
  /\ loading' = FALSE
  /\ progress' = 0
  /\ error' = ""
  /\ status' = ""
  /\ resultImage' = NULL
  /\ resultBlob' = NULL
  /\ resultSvgBlob' = NULL
  /\ originalFileName' = NULL
  /\ zBounds' = NULL
  /\ zPending' = {}
  /\ inflight' = NoRequest
  /\ statusTimers' = 0
  /\ phaseAtIssue' = "none"
  /\ lastEnded' = "none"
  /\ UNCHANGED netLog

(***************************************************************************)
(* Part 6 - upload service: settling the request promise (uploadService)   *)
(***************************************************************************)
VARIABLES
  xhr,       \* the XMLHttpRequest of the last call, as its handler sees it
  settled    \* how the promise of the last call was settled

upVars == <<xhr, settled>>

\* the two calls of the service
Endpoints == {"uploadFile", "uploadFileSVG"}

\* response statuses the handlers can see
Statuses == {0, 200, 201, 400, 404, 405, 413, 422, 500, 503}

\* response bodies: a JSON object with a detail text, a JSON object without
\* one, the JSON value null, text that is no JSON, nothing at all
Bodies ==
  {[kind |-> "object", detail |-> "Invalid file format"],
   [kind |-> "object", detail |-> "Mesh has no faces"],
   [kind |-> "object", detail |-> ""],
   [kind |-> "null", detail |-> ""],
   [kind |-> "html", detail |-> ""],
   [kind |-> "empty", detail |-> ""]}

NoXhr == [call |-> "none", status |-> 0, responseType |-> "",
          body |-> [kind |-> "empty", detail |-> ""]]

Pending == [state |-> "pending", text |-> "", code |-> 0]

Resolve == [state |-> "resolved", text |-> "", code |-> 0]

\* reject(new Error(text)); code is the status a generic message names
Reject(text, code) == [state |-> "rejected", text |-> text, code |-> code]

\* the text that precedes the status in the generic message of each call
GenericText(call) ==
  IF call = "uploadFile" THEN "Upload failed with status: "
  ELSE "SVG upload failed with status: "

\* XMLHttpRequest.responseText: readable only while responseType is "" or
\* "text"; for any other response type the getter throws InvalidStateError
responseText(x) ==
  IF x.responseType \in {"", "text"}
  THEN [threw |-> FALSE, body |-> x.body]
  ELSE [threw |-> TRUE, body |-> x.body]

\* JSON.parse(text).detail: throws for text that is no JSON and for null
parseDetail(body) ==
  IF body.kind = "object"
  THEN [threw |-> FALSE, detail |-> body.detail]
  ELSE [threw |-> TRUE, detail |-> ""]

\* the else branch of onload: try { parse, reject with detail } catch {
\* reject with the generic message }
rejectFromBody(x) ==
  LET read == responseText(x)
      parsed == parseDetail(read.body)
  IN IF read.threw \/ parsed.threw
     THEN Reject(GenericText(x.call), x.status)
     ELSE Reject(IF parsed.detail # "" THEN parsed.detail
                 ELSE "Unknown error occurred.", 0)

\* xhr.onload of uploadFile / uploadFileSVG
onload(x) ==
  IF x.status = 200 THEN Resolve
  ELSE IF x.status = 405 THEN Reject("CORS error", 0)
  ELSE IF x.status = 0 THEN Reject("Network error", 0)
  ELSE rejectFromBody(x)

UpInit ==
  /\ xhr = NoXhr
  /\ settled = Pending

\* the request was sent with responseType "blob" and a response arrived
XhrLoad(call, code, body) ==
  LET x == [call |-> call, status |-> code, responseType |-> "blob",
            body |-> body]
  IN /\ xhr' = x
     /\ settled' = onload(x)

\* the request was sent and the connection failed: xhr.onerror
XhrError(call) ==
  /\ xhr' = [call |-> call, status |-> 0, responseType |-> "blob",
             body |-> [kind |-> "empty", detail |-> ""]]
  /\ settled' = Reject("Network error", 0)

(***************************************************************************)
(* Part 7 - editor store: undo / redo history (mapStore)                   *)
(* A snapshot {svg, styling, metadata} is abstracted to the number of the  *)
(* content version it holds; NULL is the null the history starts with.     *)
(***************************************************************************)
VARIABLES
  past,       \* mapStore: state.history.past
  present,    \* mapStore: state.history.present
  future,     \* mapStore: state.history.future
  live,       \* mapStore: state.svg / styling / metadata, as a version number
  edits       \* number of content changes made so far

histVars == <<past, present, future, live, edits>>

\* initialState.history.maxHistorySize
maxHistorySize == 50

\* number of content changes the model follows
MaxEdits == 1

\* the history and the restorable state, as one value
history == [past |-> past, present |-> present, future |-> future,
            live |-> live]

HistInit ==
  /\ past = <<>>
  /\ present = NULL
  /\ future = <<>>
  /\ live = 1
  /\ edits = 0

Front(s) == SubSeq(s, 1, Len(s) - 1)

\* Array.prototype.shift: the sequence without its first element
Shifted(s) == SubSeq(s, 2, Len(s))

\* a variant of pushToHistory that never drops the oldest entry
pushToHistoryUnlimited(h) ==
  [past |-> Append(h.past, h.present), present |-> h.live,
   future |-> <<>>, live |-> h.live]

\* mapStore.pushToHistory
pushToHistory(h) ==
  LET pushed == Append(h.past, h.present)
  IN [past |-> IF Len(pushed) > maxHistorySize THEN Shifted(pushed)
               ELSE pushed,
      present |-> h.live,
      future |-> <<>>,
      live |-> h.live]

\* mapStore.undo; when the popped entry is the initial null, previous.svg
\* throws a TypeError inside the immer producer and the draft is discarded,
\* which leaves the store as it was
undo(h) ==
  IF Len(h.past) > 0
  THEN LET previous == h.past[Len(h.past)]
       IN IF previous = NULL
          THEN h
          ELSE [past |-> Front(h.past),
                present |-> previous,
                future |-> <<h.present>> \o h.future,
                live |-> previous]
  ELSE h

\* mapStore.canUndo
canUndo == Len(past) > 0

\* undo's producer reads previous.svg of a null entry: the TypeError that
\* set() lets through to the caller
undoThrows(h) == Len(h.past) > 0 /\ h.past[Len(h.past)] = NULL

\* mapStore.redo
redo(h) ==
  IF Len(h.future) > 0
  THEN LET next == h.future[1]
       IN IF next = NULL
          THEN h
          ELSE [past |-> Append(h.past, h.present),
                present |-> next,
                future |-> Shifted(h.future),
                live |-> next]
  ELSE h

\* the store takes the value a call returns
Becomes(h) ==
  /\ past' = h.past
  /\ present' = h.present
  /\ future' = h.future
  /\ live' = h.live

PushToHistory ==
  /\ Becomes(pushToHistory(history))
  /\ UNCHANGED edits

Undo ==
  /\ Becomes(undo(history))
  /\ UNCHANGED edits

Redo ==
  /\ Becomes(redo(history))
  /\ UNCHANGED edits

\* setSvgContent, setColorScheme, setTitle, ...: the content changes to a
\* version not seen before; the history is not touched
EditContent ==
  /\ edits < MaxEdits
  /\ edits' = edits + 1
  /\ live' = edits' + 1
  /\ UNCHANGED <<past, present, future>>

(***************************************************************************)
(* Part 8 - map editor: normalisation of a loaded SVG (applyLoadedSvg)     *)
(* Lengths are in tenths of a unit; scale factors and scaled lengths are   *)
(* exact fractions [n, d].                                                 *)
(***************************************************************************)
VARIABLES
  loadedViewBox,       \* the viewBox attribute of the SVG given to the editor
  contentScale,        \* MapEditor: contentScale
  originalDimensions   \* MapEditor: originalDimensions (normalised size)

loadVars == <<loadedViewBox, contentScale, originalDimensions>>

\* widths and heights a viewBox can carry, in tenths: 0, 0.1, 0.5, 5, 9.9,
\* 10, 10.1, 800
ViewBoxDims == {0, 1, 5, 50, 99, 100, 101, 8000}

\* how the four numbers of the attribute are separated: "0 0 w h",
\* "0,0,w,h" or "0, 0, w, h" (SVG allows whitespace and/or a comma)
Separators == {"space", "comma", "commaSpace"}

ViewBoxes ==
  [present : {TRUE}, sep : Separators, w : ViewBoxDims, h : ViewBoxDims]
    \cup {[present |-> FALSE, sep |-> "space", w |-> 6000, h |-> 4000]}

\* Number(token): a token is a number only if it is a numeral and nothing else
Num(v) == [nan |-> FALSE, v |-> v]

NaN == [nan |-> TRUE, v |-> 0]

\* viewBox.split(" ").map(Number); an absent attribute reads "0 0 600 400"
splitViewBox(vb) ==
  IF ~vb.present THEN <<Num(0), Num(0), Num(6000), Num(4000)>>
  ELSE IF vb.sep = "space" THEN <<Num(0), Num(0), Num(vb.w), Num(vb.h)>>
  ELSE IF vb.sep = "comma" THEN <<NaN>>
  ELSE <<NaN, NaN, NaN, Num(vb.h)>>

\* array destructuring: a missing element is undefined
At(tokens, i) == IF i <= Len(tokens) THEN tokens[i] ELSE NaN

\* x || fallback for a number: NaN, undefined and 0 are falsy
OrElse(x, fallback) == IF x.nan \/ x.v = 0 THEN fallback ELSE x.v

\* Math.max(vbWidth || 0, vbHeight || 0) || 1, in tenths
maxDimension(vbWidth, vbHeight) ==
  LET m == Max(OrElse(vbWidth, 0), OrElse(vbHeight, 0))
  IN IF m = 0 THEN 10 ELSE m

\* maxDimension < 10 ? targetSize / maxDimension : 1
normalizeScale(m) ==
  IF m < 100 THEN [n |-> 1000 * 10, d |-> m] ELSE [n |-> 1, d |-> 1]

\* a length in tenths times a fraction, as a fraction of a unit
Scaled(len, f) == [n |-> len * f.n, d |-> 10 * f.d]

\* applyLoadedSvg: the scale and the normalised size it sets
applyLoadedSvg(vb) ==
  LET tokens == splitViewBox(vb)
      vbWidth == At(tokens, 3)
      vbHeight == At(tokens, 4)
      scale == normalizeScale(maxDimension(vbWidth, vbHeight))
  IN [contentScale |-> scale,
      width |-> Scaled(OrElse(vbWidth, 6000), scale),
      height |-> Scaled(OrElse(vbHeight, 4000), scale)]

\* equality and order of fractions with positive denominators
FracEq(a, b) == a.n * b.d = b.n * a.d

FracLeq(a, b) == a.n * b.d <= b.n * a.d

NoViewBox == [present |-> FALSE, sep |-> "none", w |-> 0, h |-> 0]

LoadInit ==
  /\ loadedViewBox = NoViewBox
  /\ contentScale = [n |-> 1, d |-> 1]
  /\ originalDimensions = [width |-> [n |-> 600, d |-> 1],
                           height |-> [n |-> 400, d |-> 1]]

\* the initialSvg effect: an SVG document arrives and is applied
LoadSvg(vb) ==
  LET r == applyLoadedSvg(vb)
  IN /\ loadedViewBox' = vb
     /\ contentScale' = r.contentScale
     /\ originalDimensions' = [width |-> r.width, height |-> r.height]

(***************************************************************************)
(* Part 9 - svgUtils.intersectsRect as a function of its two arguments     *)
(***************************************************************************)
VARIABLES
  irBounds,   \* the argument a: {minX, minY, maxX, maxY}
  irRect,     \* the argument b: {x, y, width, height}
  irResult    \* the value returned for them, once the call was made

rectVars == <<irBounds, irRect, irResult>>

\* largest coordinate of the rectangles enumerated
RectMax == 2

Coords == 0..RectMax

\* element bounds, as elementBoundsInSvg produces them (min <= max)
BoundsArgs ==
  {b \in [minX : Coords, minY : Coords, maxX : Coords, maxY : Coords] :
     b.minX <= b.maxX /\ b.minY <= b.maxY}

\* marquee rectangles, as handleMouseUp builds them (width, height >= 0)
RectArgs ==
  {r \in [x : Coords, y : Coords, width : Coords, height : Coords] :
     r.x + r.width <= RectMax /\ r.y + r.height <= RectMax}

NotCalled == [called |-> FALSE, value |-> FALSE]

\* the state the other specifications keep these variables in
RectIdle ==
  /\ irBounds = [minX |-> 0, minY |-> 0, maxX |-> 0, maxY |-> 0]
  /\ irRect = [x |-> 0, y |-> 0, width |-> 0, height |-> 0]
  /\ irResult = NotCalled

RectInit ==
  /\ irBounds \in BoundsArgs
  /\ irRect \in RectArgs
  /\ irResult = NotCalled

\* performMarqueeSelect: the test is made for an element and the marquee
CallIntersectsRect ==
  /\ ~irResult.called
  /\ irResult' = [called |-> TRUE, value |-> intersectsRect(irBounds, irRect)]
  /\ UNCHANGED <<irBounds, irRect>>

\* the points of the plane on the half-unit lattice, in half units
HalfPoints == [x : 0..(2 * RectMax), y : 0..(2 * RectMax)]

\* p lies in the closed rectangle a (bounds) / b (rect)
InBounds(p, a) ==
  /\ 2 * a.minX <= p.x /\ p.x <= 2 * a.maxX
  /\ 2 * a.minY <= p.y /\ p.y <= 2 * a.maxY

InRect(p, b) ==
  /\ 2 * b.x <= p.x /\ p.x <= 2 * (b.x + b.width)
  /\ 2 * b.y <= p.y /\ p.y <= 2 * (b.y + b.height)

\* p lies strictly inside the rectangle
InsideBounds(p, a) ==
  /\ 2 * a.minX < p.x /\ p.x < 2 * a.maxX
  /\ 2 * a.minY < p.y /\ p.y < 2 * a.maxY

InsideRect(p, b) ==
  /\ 2 * b.x < p.x /\ p.x < 2 * (b.x + b.width)
  /\ 2 * b.y < p.y /\ p.y < 2 * (b.y + b.height)

\* the two rectangles have a point in common
SharePoint(a, b) == \E p \in HalfPoints : InBounds(p, a) /\ InRect(p, b)

\* the two rectangles have an inner point in common
ShareInnerPoint(a, b) ==
  \E p \in HalfPoints : InsideBounds(p, a) /\ InsideRect(p, b)

(***************************************************************************)
(* Part 10 - mathUtils: evaluateExpression and processInputValue           *)
(* A string is a sequence of symbols; "I" stands for the word Infinity.    *)
(* A number is NotANumber, PosInf, NegInf or an exact fraction n / d with  *)
(* d > 0; rounding of doubles is not modelled.                             *)
(***************************************************************************)
VARIABLES
  exprInput,        \* evaluateExpression: the argument expression
  exprResult,       \* evaluateExpression: the value returned, once called
  pivInput,         \* processInputValue: the argument inputValue
  pivOptions,       \* processInputValue: the arguments min, max, positiveOnly
  pivResult         \* processInputValue: the value returned, once called

mathVars == <<exprInput, exprResult, pivInput, pivOptions, pivResult>>

\* longest expression given to evaluateExpression
MaxExprLen == 4

\* longest text given to processInputValue
MaxInputLen == 3

Alphabet == {"0", "2", ".", "-", "+", "*", "/", "a", " ", "I"}

Digits == {"0", "2"}

Operators == {"+", "-", "*", "/"}

Strings(n) == UNION {[1..k -> Alphabet] : k \in 0..n}

Fin(n, d) == [kind |-> "fin", n |-> n, d |-> d]

NotANumber == [kind |-> "nan", n |-> 0, d |-> 1]

PosInf == [kind |-> "inf", n |-> 1, d |-> 1]

NegInf == [kind |-> "-inf", n |-> -1, d |-> 1]

\* the absent result: null
Null == [kind |-> "null", n |-> 0, d |-> 1]

\* a call that was not made yet
NoValue == [kind |-> "none", n |-> 0, d |-> 1]

IsNumber(v) == v.kind \in {"fin", "inf", "-inf"}

\* a <= b for numbers that are not NaN
NumLeq(a, b) ==
  IF a.kind = "-inf" \/ b.kind = "inf" THEN TRUE
  ELSE IF a.kind = "inf" \/ b.kind = "-inf" THEN FALSE
  ELSE a.n * b.d <= b.n * a.d

\* Math.min / Math.max for numbers that are not NaN
MathMin(a, b) == IF NumLeq(a, b) THEN a ELSE b

MathMax(a, b) == IF NumLeq(a, b) THEN b ELSE a

RECURSIVE Pow10(_)
Pow10(k) == IF k = 0 THEN 1 ELSE 10 * Pow10(k - 1)

DigitValue(c) == IF c = "2" THEN 2 ELSE 0

RECURSIVE DigitsValue(_)
DigitsValue(s) ==
  IF s = <<>> THEN 0
  ELSE 10 * DigitsValue(SubSeq(s, 1, Len(s) - 1)) + DigitValue(s[Len(s)])

\* the number of digits a string starts with
LeadDigits(s) ==
  Cardinality({k \in 1..Len(s) : \A m \in 1..k : s[m] \in Digits})

\* the string without the white space it starts with
TrimStart(s) ==
  LET spaces == Cardinality({k \in 1..Len(s) : \A m \in 1..k : s[m] = " "})
  IN SubSeq(s, spaces + 1, Len(s))

\* parseFloat: the longest prefix that is a decimal literal (or Infinity),
\* after leading white space and a sign; NaN when there is none
parseFloat(s) ==
  LET t == TrimStart(s)
      signed == Len(t) > 0 /\ t[1] \in {"-", "+"}
      neg == signed /\ t[1] = "-"
      u == IF signed THEN SubSeq(t, 2, Len(t)) ELSE t
      i == LeadDigits(u)
      hasDot == Len(u) > i /\ u[i + 1] = "."
      j == IF hasDot THEN LeadDigits(SubSeq(u, i + 2, Len(u))) ELSE 0
      magnitude == DigitsValue(SubSeq(u, 1, i)) * Pow10(j)
                     + DigitsValue(SubSeq(u, i + 2, i + 1 + j))
  IN IF Len(u) > 0 /\ u[1] = "I" THEN (IF neg THEN NegInf ELSE PosInf)
     ELSE IF i + j = 0 THEN NotANumber
     ELSE Fin(IF neg THEN 0 - magnitude ELSE magnitude, Pow10(j))

NotSpace(c) == c # " "

\* expression.replace(/\s/g, "")
Strip(s) == SelectSeq(s, NotSpace)

\* the operand pattern -?\d*\.?\d+ matches the whole of s
MatchesOperand(s) ==
  LET t == IF Len(s) > 0 /\ s[1] = "-" THEN SubSeq(s, 2, Len(s)) ELSE s
  IN /\ Len(t) >= 1
     /\ t[Len(t)] \in Digits
     /\ \A k \in 1..Len(t) : t[k] \in Digits \cup {"."}
     /\ Cardinality({k \in 1..Len(t) : t[k] = "."}) <= 1

\* mathPattern: the positions of the operator in a match of the whole of s
\* (operand, operator, operand); there is at most one
mathPattern(s) ==
  {p \in 2..(Len(s) - 1) :
     /\ s[p] \in Operators
     /\ MatchesOperand(SubSeq(s, 1, p - 1))
     /\ MatchesOperand(SubSeq(s, p + 1, Len(s)))}

\* the quotient of two fractions, the divisor not zero
Quotient(a, b) ==
  IF b.n > 0 THEN Fin(a.n * b.d, a.d * b.n)
  ELSE Fin(0 - a.n * b.d, 0 - a.d * b.n)

\* mathUtils.evaluateExpression
evaluateExpression(expression) ==
  IF expression = <<>> THEN Null
  ELSE
    LET cleanExpression == Strip(expression)
        match == mathPattern(cleanExpression)
    IN IF match = {} THEN
         LET num == parseFloat(cleanExpression)
         IN IF num.kind = "nan" THEN Null ELSE num
       ELSE
         LET p == CHOOSE q \in match : TRUE
             operator == cleanExpression[p]
             left == parseFloat(SubSeq(cleanExpression, 1, p - 1))
             right == parseFloat(SubSeq(cleanExpression, p + 1,
                                        Len(cleanExpression)))
         IN IF left.kind = "nan" \/ right.kind = "nan" THEN Null
            ELSE IF operator = "+"
              THEN Fin(left.n * right.d + right.n * left.d, left.d * right.d)
            ELSE IF operator = "-"
              THEN Fin(left.n * right.d - right.n * left.d, left.d * right.d)
            ELSE IF operator = "*"
              THEN Fin(left.n * right.n, left.d * right.d)
            ELSE IF right.n = 0 THEN Null
            ELSE Quotient(left, right)

\* mathUtils.roundToThousandth: Math.round(num * 1000) / 1000
roundToThousandth(num) ==
  IF num.kind # "fin" THEN num
  ELSE Fin((2 * 1000 * num.n + num.d) \div (2 * num.d), 1000)

\* the argument lists the callers use: the defaults (the blur handlers pass
\* the text only), and the ranges of two fields
OptionSets ==
  {[min |-> NegInf, max |-> PosInf, positiveOnly |-> FALSE],
   [min |-> NegInf, max |-> PosInf, positiveOnly |-> TRUE],
   [min |-> Fin(-2, 1), max |-> Fin(2, 1), positiveOnly |-> FALSE],
   [min |-> Fin(1, 10), max |-> Fin(10, 1), positiveOnly |-> TRUE]}

\* processInputValue: the value it works on before validation
newValueOf(inputValue) ==
  LET evaluated == evaluateExpression(inputValue)
  IN IF evaluated.kind = "null" THEN parseFloat(inputValue) ELSE evaluated

\* processInputValue: what it returns for a value that is not NaN (the
\* positive-only test, the clamp and the rounding)
acceptedValue(newValue, min, max, positiveOnly) ==
  IF positiveOnly /\ NumLeq(newValue, Fin(0, 1)) THEN Null
  ELSE roundToThousandth(MathMax(min, MathMin(max, newValue)))

\* mathUtils.processInputValue
processInputValue(inputValue, min, max, positiveOnly) ==
  LET newValue == newValueOf(inputValue)
  IN IF newValue.kind = "nan" THEN Null
     ELSE acceptedValue(newValue, min, max, positiveOnly)

\* the state the other specifications keep these variables in
MathIdle ==
  /\ exprInput = <<>>
  /\ exprResult = NoValue
  /\ pivInput = <<>>
  /\ pivOptions = [min |-> NegInf, max |-> PosInf, positiveOnly |-> FALSE]
  /\ pivResult = NoValue

ExprInit ==
  /\ exprInput \in Strings(MaxExprLen)
  /\ exprResult = NoValue
  /\ pivInput = <<>>
  /\ pivOptions = [min |-> NegInf, max |-> PosInf, positiveOnly |-> FALSE]
  /\ pivResult = NoValue

InputInit ==
  /\ exprInput = <<>>
  /\ exprResult = NoValue
  /\ pivInput \in Strings(MaxInputLen)
  /\ pivOptions \in OptionSets
  /\ pivResult = NoValue

CallEvaluateExpression ==
  /\ exprResult = NoValue
  /\ exprResult' = evaluateExpression(exprInput)
  /\ UNCHANGED <<exprInput, pivInput, pivOptions, pivResult>>

\* createBlurHandler: processValue(inputValue)
CallProcessInputValue ==
  /\ pivResult = NoValue
  /\ pivResult' = processInputValue(pivInput, pivOptions.min, pivOptions.max,
                                    pivOptions.positiveOnly)
  /\ UNCHANGED <<exprInput, exprResult, pivInput, pivOptions>>

(***************************************************************************)
(* Part 11 - 3D preview: auto-orientation of the loaded geometry           *)
(* (ModelViewer, autoOrientGeometryForTopography)                          *)
(***************************************************************************)
VARIABLES
  orientSize,            \* the bounding-box size of the geometry handed to the function
  orientResult           \* what the call did: rotated about X or not, and the size afterwards

orientVars == <<orientSize, orientResult>>

\* largest bounding-box extent tried on each axis
OrientMax == 4

Extents == 0..OrientMax

\* boundingBox.getSize: the three extents of the box
Sizes == [x : Extents, y : Extents, z : Extents]

\* the decision with ties between Y and another axis given to the other axis
maxDimensionAxisStrict(size) ==
  IF size.y > size.x /\ size.y > size.z THEN 1
  ELSE IF size.z >= size.x /\ size.z >= size.y THEN 2
  ELSE 0

\* the axis the function decides is the longest (0 = X, 1 = Y, 2 = Z)
maxDimensionAxis(size) ==
  IF size.y >= size.x /\ size.y >= size.z THEN 1
  ELSE IF size.z >= size.x /\ size.z >= size.y THEN 2
  ELSE 0

\* geometry.rotateX(Math.PI / 2): (x, y, z) -> (x, -z, y), so the box's
\* Y and Z extents change places
rotateX(size) == [x |-> size.x, y |-> size.z, z |-> size.y]

\* autoOrientGeometryForTopography: whether it rotated, and the recomputed box
autoOrientGeometryForTopography(size) ==
  IF maxDimensionAxis(size) = 1
  THEN [called |-> TRUE, rotated |-> TRUE, size |-> rotateX(size)]
  ELSE [called |-> TRUE, rotated |-> FALSE, size |-> size]

NotOriented == [called |-> FALSE, rotated |-> FALSE, size |-> [x |-> 0, y |-> 0, z |-> 0]]

\* the state the other specifications keep these variables in
OrientIdle ==
  /\ orientSize = [x |-> 0, y |-> 0, z |-> 0]
  /\ orientResult = NotOriented

\* a geometry of any size is loaded
OrientInit ==
  /\ orientSize \in Sizes
  /\ orientResult = NotOriented

\* loader.load callback: the loaded geometry is auto-oriented once
CallAutoOrient ==
  /\ ~orientResult.called
  /\ orientResult' = autoOrientGeometryForTopography(orientSize)
  /\ UNCHANGED orientSize

(***************************************************************************)
(* Part 12 - slice preview: the requests of fetchSlicePreview and their    *)
(* answers (SlicePreview)                                                  *)
(***************************************************************************)
VARIABLES
  sliceFlight,           \* fetches of fetchSlicePreview not yet answered, oldest first: [z, p]
  sliceData,             \* SlicePreview: sliceData (NoSlice for null, or the slice stored)
  sliceLoading,          \* SlicePreview: loading
  sliceError,            \* SlicePreview: error is set
  latestResult           \* history: the answer to the most recently issued request, once it is in

sliceVars == <<sliceFlight, sliceData, sliceLoading, sliceError, latestResult>>

\* how many slice-preview fetches may be unanswered at once
MaxSliceFlight == 2

\* sliceData before any answer; also "no answer yet" in latestResult
NoSlice == [z |-> -1, p |-> -1]

\* the server's slice for a request: determined by the level and the transform
SliceOf(req) == [z |-> req.z, p |-> req.p]

SliceInit ==
  /\ sliceFlight = <<>>
  /\ sliceData = NoSlice
  /\ sliceLoading = FALSE
  /\ sliceError = FALSE
  /\ latestResult = NoSlice

\* fetchSlicePreview(zLevel), up to the await of fetch (setUpdatePending is
\* part of PreviewTimerFires)
fetchSlicePreview(zLevel, p) ==
  /\ Len(sliceFlight) < MaxSliceFlight
  /\ sliceLoading' = TRUE
  /\ sliceError' = FALSE
  /\ sliceFlight' = Append(sliceFlight, [z |-> zLevel, p |-> p])
  /\ latestResult' = NoSlice
  /\ UNCHANGED sliceData

\* the sequence without its i-th entry
RemoveAt(s, i) == SubSeq(s, 1, i - 1) \o SubSeq(s, i + 1, Len(s))

\* fetchSlicePreview after the await for the i-th unanswered fetch: the data
\* is stored (or the error), then finally clears loading.  No request
\* identity is compared and no fetch is aborted.
SliceResponse(i, ok) ==
  /\ i \in 1..Len(sliceFlight)
  /\ sliceFlight' = RemoveAt(sliceFlight, i)
  /\ IF ok
     THEN /\ sliceData' = SliceOf(sliceFlight[i])
          /\ UNCHANGED sliceError
     ELSE /\ sliceError' = TRUE
          /\ UNCHANGED sliceData
  /\ sliceLoading' = FALSE
  /\ latestResult' = IF ok /\ i = Len(sliceFlight) /\ latestResult = NoSlice
                     THEN SliceOf(sliceFlight[i])
                     ELSE latestResult
  /\ reqNow' = FALSE
  /\ lastReq' = NoSliceRequest
  /\ UNCHANGED <<pZBounds, params, currentZ, interactionCount, isUserInteracting,
                 updatePending, previewTimers, interactionTimeoutRef, endTimers,
                 sliderMouse, sliderTouches, dragCtl, netCalls, sinceChange>>

(***************************************************************************)
(* Part 13 - map editor: the inspector's stroke fields                     *)
(* (PropertiesPanel, updateAttrOnSelection)                                *)
(***************************************************************************)
VARIABLES
  lastEdit               \* history: per node, the stroke and the width last typed for it

inspectVars == <<lastEdit>>

\* what the stroke text field can hold after a keystroke: emptied, or a colour
StrokeInputs == {"", "#00ff00"}

\* what the stroke-width number field can hold: emptied, or a width
WidthInputs == {NoWidth, [base |-> 3, k |-> 0]}

NotEdited == [stroke |-> [set |-> FALSE, v |-> ""], width |-> [set |-> FALSE, v |-> NoWidth]]

InspectInit == lastEdit = [n \in Nodes |-> NotEdited]

\* the attribute writes of updateAttrOnSelection(name, value) on one element:
\* an empty value removes the attribute; the data-original marker gets
\* String(value || "")
EditedAttr(a, name, value) ==
  IF name = "stroke"
  THEN [a EXCEPT !.stroke = value, !.dStroke = value]
  ELSE [a EXCEPT !.width = value, !.dWidth = value]

\* updateAttrOnSelection(name, value); sel is the selectedElements its closure holds
updateAttrOnSelection(st, name, value, sel) ==
  [st EXCEPT !.attr = [n \in Nodes |-> IF Includes(sel, n)
                                         THEN EditedAttr(st.attr[n], name, value)
                                         ELSE st.attr[n]]]

\* onPropertyChange("stroke" / "stroke-width", e.target.value): the panel is
\* shown while something is selected
InspectorEdit(name, value) ==
  /\ ~clickPending.on
  /\ selectedElements # <<>>
  /\ Commit(updateAttrOnSelection(EdState, name, value, selectedElements))
  /\ lastEdit' = [n \in Nodes |->
                   IF Includes(selectedElements, n)
                   THEN (IF name = "stroke"
                         THEN [lastEdit[n] EXCEPT !.stroke = [set |-> TRUE, v |-> value]]
                         ELSE [lastEdit[n] EXCEPT !.width = [set |-> TRUE, v |-> value]])
                   ELSE lastEdit[n]]
  /\ lastOp' = NoOp
  /\ UNCHANGED <<isDragging, pressTarget, clickPending>>
  /\ EdToolsUnchanged
  /\ EdMarqueeUnchanged

(***************************************************************************)
(* Specifications                                                          *)
(***************************************************************************)
\* the parts added to the client model after the editor
\* the parts that are functions applied to their arguments once
lateVars == <<orientVars, sliceVars, inspectVars>>

auxVars == <<pageVars, upVars, histVars, loadVars, rectVars, mathVars, lateVars>>

vars == <<genVars, parVars, edVars, viewVars, auxVars>>

\* the other parts of the client are left alone
GenFrame == UNCHANGED <<parVars, edVars, viewVars, auxVars>>

\* the parts the "Edit in Editor" flow leaves alone (it writes the hand-off)
GenRest ==
  UNCHANGED <<parVars, edVars, viewVars, upVars, histVars, loadVars, rectVars, mathVars,
              lateVars>>

GenNext ==
  \/ \E f \in Files : SelectFile(f) /\ GenFrame /\ UNCHANGED editorFetches
  \/ \E f \in Files, ok \in BOOLEAN, hb \in BOOLEAN : ZBoundsResponse(f, ok, hb) /\ GenFrame /\ UNCHANGED editorFetches
  \/ ProcessFile /\ GenFrame /\ UNCHANGED editorFetches
  \/ DownloadSVG /\ GenFrame /\ UNCHANGED editorFetches
  \/ \E pct \in {50, 100} : UploadProgress(pct) /\ GenFrame /\ UNCHANGED editorFetches
  \/ UploadSucceeds /\ GenFrame /\ UNCHANGED editorFetches
  \/ UploadFails /\ GenFrame /\ UNCHANGED editorFetches
  \/ SvgSucceeds /\ GenFrame /\ UNCHANGED editorFetches
  \/ SvgFails /\ GenFrame /\ UNCHANGED editorFetches
  \/ StatusTimerFires /\ GenFrame /\ UNCHANGED editorFetches
  \/ Restart /\ GenFrame
  \/ EditInEditorClick /\ GenRest
  \/ EditInEditorFails /\ GenRest
  \/ \E s \in SvgTexts : EditInEditorSucceeds(s) /\ GenRest

\* the other parts of the client are left alone
ParFrame == UNCHANGED <<genVars, edVars, viewVars, auxVars>>

ParNext ==
  \/ ZBoundsArrive /\ ParFrame
  \/ DragMouseDown /\ ParFrame
  \/ \E v \in Vals : DragMouseMove(v) /\ ParFrame
  \/ DragMouseUp /\ ParFrame
  \/ \E v \in Vals : ParamCommit(v) /\ ParFrame
  \/ SliderMouseDown /\ ParFrame
  \/ SliderMouseUp /\ ParFrame
  \/ SliderStrayMouseUp /\ ParFrame
  \/ SliderTouchStart /\ ParFrame
  \/ SliderTouchEnd /\ ParFrame
  \/ \E z \in Vals : SliderChange(z) /\ ParFrame
  \/ EndTimerFires /\ ParFrame
  \/ \E t \in previewTimers : PreviewTimerFires(t) /\ ParFrame
  \/ Tick /\ ParFrame

\* the other parts of the client are left alone
EdFrame == UNCHANGED <<genVars, parVars, viewVars, auxVars>>

EdNext ==
  \/ \E t \in Elems : HoverEnter(t) /\ EdFrame
  \/ \E t \in Elems : HoverLeave(t) /\ EdFrame
  \/ \E hit \in Elems \cup {NULL}, p \in Points : MouseDown(hit, p) /\ EdFrame
  \/ \E over \in Elems \cup {NULL}, q \in Points, shift \in BOOLEAN : MouseUp(over, q, shift) /\ EdFrame
  \/ Click /\ EdFrame
  \/ GuardTimerFires /\ EdFrame
  \/ KeyEscape /\ EdFrame
  \/ KeySelectAll /\ EdFrame
  \/ KeySpaceDown /\ EdFrame
  \/ KeySpaceUp /\ EdFrame
  \/ \E t \in {"select", "pan"} : KeyTool(t) /\ EdFrame

\* the editor with the Select tool: selection and document operations
DocNext ==
  \/ \E t \in Elems : HoverEnter(t) /\ EdFrame
  \/ \E t \in Elems : HoverLeave(t) /\ EdFrame
  \/ \E hit \in Elems \cup {NULL}, p \in Points : MouseDown(hit, p) /\ EdFrame
  \/ \E over \in Elems \cup {NULL}, q \in Points, shift \in BOOLEAN : MouseUp(over, q, shift) /\ EdFrame
  \/ Click /\ EdFrame
  \/ GuardTimerFires /\ EdFrame
  \/ KeyEscape /\ EdFrame
  \/ KeySelectAll /\ EdFrame
  \/ KeyDelete /\ EdFrame
  \/ KeyDuplicate /\ EdFrame

\* the editor with the Select tool and the conversion of shapes to paths
PathNext ==
  \/ \E hit \in Elems \cup {NULL}, p \in Points : MouseDown(hit, p) /\ EdFrame
  \/ \E over \in Elems \cup {NULL}, q \in Points, shift \in BOOLEAN : MouseUp(over, q, shift) /\ EdFrame
  \/ Click /\ EdFrame
  \/ GuardTimerFires /\ EdFrame
  \/ KeyEscape /\ EdFrame
  \/ KeySelectAll /\ EdFrame
  \/ KeyDelete /\ EdFrame
  \/ KeyDuplicate /\ EdFrame
  \/ \E c \in SUBSET Nodes, all \in BOOLEAN : ConvertToPath(c, all) /\ EdFrame

\* the view and the tools of the editor
ViewFrame == UNCHANGED <<genVars, parVars, auxVars>>

ViewNext ==
  \/ \E d \in {"in", "out"} : KeyZoom(d) /\ ViewFrame
  \/ \E d \in {"in", "out"}, c \in BOOLEAN : Wheel(d, c) /\ ViewFrame
  \/ \E sh \in BOOLEAN : ZoomClick(sh) /\ ViewFrame
  \/ ResetView /\ ViewFrame
  \/ \E z \in ZoomInputs : StoreSetZoom(z) /\ ViewFrame
  \/ StoreResetView /\ ViewFrame
  \/ \E t \in {"select", "pan", "zoom"} : KeyTool(t) /\ UNCHANGED viewVars /\ ViewFrame
  \/ \E t \in {"select", "pan", "zoom"} : ToolbarTool(t) /\ UNCHANGED viewVars /\ ViewFrame
  \/ KeySpaceDown /\ UNCHANGED viewVars /\ ViewFrame
  \/ KeySpaceUp /\ UNCHANGED viewVars /\ ViewFrame

PageFrame ==
  UNCHANGED <<genVars, parVars, edVars, viewVars, upVars, histVars, loadVars, rectVars, mathVars,
              lateVars>>

PageNext ==
  \/ \E r \in Routes : NavLink(r) /\ PageFrame
  \/ \E t \in SvgTexts \cup {EmptyText} : handleSVGFileUpload(t) /\ PageFrame
  \/ \E s \in SvgTexts : handleEditInEditor(s) /\ PageFrame
  \/ \E ok \in BOOLEAN, s \in SvgTexts, f \in Files :
       handleEditInEditorClick(ok, s, f) /\ PageFrame
  \/ PageExport /\ PageFrame

UpFrame ==
  UNCHANGED <<genVars, parVars, edVars, viewVars, pageVars, histVars, loadVars, rectVars, mathVars,
              lateVars>>

UpNext ==
  \/ \E c \in Endpoints, s \in Statuses, b \in Bodies :
       XhrLoad(c, s, b) /\ UpFrame
  \/ \E c \in Endpoints : XhrError(c) /\ UpFrame

HistFrame ==
  UNCHANGED <<genVars, parVars, edVars, viewVars, pageVars, upVars, loadVars, rectVars, mathVars,
              lateVars>>

HistNext ==
  \/ PushToHistory /\ HistFrame
  \/ Undo /\ HistFrame
  \/ Redo /\ HistFrame
  \/ EditContent /\ HistFrame

LoadFrame ==
  UNCHANGED <<genVars, parVars, edVars, viewVars, pageVars, upVars, histVars, rectVars, mathVars,
              lateVars>>

LoadNext == \E vb \in ViewBoxes : LoadSvg(vb) /\ LoadFrame

RectFrame ==
  UNCHANGED <<genVars, parVars, edVars, viewVars, pageVars, upVars, histVars, loadVars, mathVars,
              lateVars>>

RectNext == CallIntersectsRect /\ RectFrame

\* the initial state of every part that is an object of the client
ClientInit ==
  /\ GenInit /\ ParInit /\ EdInit /\ ViewInit
  /\ PageInit /\ UpInit /\ HistInit /\ LoadInit

MathFrame ==
  UNCHANGED <<genVars, parVars, edVars, viewVars, pageVars, upVars, histVars, loadVars, rectVars,
              lateVars>>

ExprNext == CallEvaluateExpression /\ MathFrame

InputNext == CallProcessInputValue /\ MathFrame

\* the functions not yet applied
LateIdle == OrientIdle /\ SliceInit /\ InspectInit

Init == ClientInit /\ RectIdle /\ MathIdle /\ LateIdle

SpecGen == Init /\ [][GenNext]_vars

SpecPar == Init /\ [][ParNext]_vars

\* the parameter panel with time passing and every due timeout called back
\* (the browser runs a timeout's callback once its delay has elapsed)
SpecParLive ==
  /\ Init
  /\ [][ParNext]_vars
  /\ WF_vars(Tick /\ ParFrame)
  /\ WF_vars(EndTimerFires /\ ParFrame)
  /\ WF_vars(\E t \in previewTimers : PreviewTimerFires(t) /\ ParFrame)

SpecEd == Init /\ [][EdNext]_vars

SpecDoc == Init /\ [][DocNext]_vars

SpecPath == Init /\ [][PathNext]_vars

SpecView == Init /\ [][ViewNext]_vars

SpecPage == Init /\ [][PageNext]_vars

SpecUp == Init /\ [][UpNext]_vars

SpecHist == Init /\ [][HistNext]_vars

SpecLoad == Init /\ [][LoadNext]_vars

\* the client at rest and one pair of arguments for intersectsRect
RectStart == ClientInit /\ RectInit /\ MathIdle /\ LateIdle

\* intersectsRect applied to every pair of arguments
SpecRect == RectStart /\ [][RectNext]_vars

\* the client at rest and one text for evaluateExpression
ExprStart == ClientInit /\ RectIdle /\ ExprInit /\ LateIdle

\* evaluateExpression applied to every text up to MaxExprLen symbols
SpecExpr == ExprStart /\ [][ExprNext]_vars

\* the client at rest and one text and one set of options for processInputValue
InputStart == ClientInit /\ RectIdle /\ InputInit /\ LateIdle

\* processInputValue applied to every text up to MaxInputLen symbols
SpecInput == InputStart /\ [][InputNext]_vars

OrientFrame ==
  UNCHANGED <<genVars, parVars, edVars, viewVars, pageVars, upVars, histVars, loadVars,
              rectVars, mathVars, sliceVars, inspectVars>>

OrientNext == CallAutoOrient /\ OrientFrame

SliceFrame ==
  UNCHANGED <<genVars, edVars, viewVars, pageVars, upVars, histVars, loadVars,
              rectVars, mathVars, orientVars, inspectVars>>

\* the slice preview driven from the keyboard and the text fields, with the
\* answers of the server
SliceNext ==
  \/ ZBoundsArrive /\ UNCHANGED sliceVars /\ SliceFrame
  \/ \E v \in Vals : ParamCommit(v) /\ UNCHANGED sliceVars /\ SliceFrame
  \/ \E z \in Vals : SliderChange(z) /\ UNCHANGED sliceVars /\ SliceFrame
  \/ \E t \in previewTimers :
       PreviewTimerFires(t) /\ fetchSlicePreview(t.z, t.p) /\ SliceFrame
  \/ Tick /\ UNCHANGED sliceVars /\ SliceFrame
  \/ \E i \in 1..MaxSliceFlight, ok \in BOOLEAN : SliceResponse(i, ok) /\ SliceFrame

SpecSlice == Init /\ [][SliceNext]_vars

InspectFrame ==
  UNCHANGED <<genVars, parVars, viewVars, pageVars, upVars, histVars, loadVars,
              rectVars, mathVars, orientVars, sliceVars>>

\* the editor with the Select tool: selection by click, marquee and keyboard,
\* and the inspector
InspectNext ==
  \/ \E hit \in Elems \cup {NULL}, p \in Points : MouseDown(hit, p) /\ EdFrame
  \/ \E over \in Elems \cup {NULL}, q \in Points, shift \in BOOLEAN : MouseUp(over, q, shift) /\ EdFrame
  \/ Click /\ EdFrame
  \/ GuardTimerFires /\ EdFrame
  \/ KeyEscape /\ EdFrame
  \/ KeySelectAll /\ EdFrame
  \/ \E v \in StrokeInputs : InspectorEdit("stroke", v) /\ InspectFrame
  \/ \E v \in WidthInputs : InspectorEdit("stroke-width", v) /\ InspectFrame

SpecInspect == Init /\ [][InspectNext]_vars

\* the client at rest and one geometry for autoOrientGeometryForTopography
OrientStart == ClientInit /\ RectIdle /\ MathIdle /\ OrientInit /\ SliceInit /\ InspectInit

\* autoOrientGeometryForTopography applied to a box of every size
SpecOrient == OrientStart /\ [][OrientNext]_vars

(***************************************************************************)
(* Properties - generation workflow (SpecGen)                              *)
(***************************************************************************)

\* C1: once a failed generation request (PNG or SVG flow) has been handled,
\* the workflow shows the phase it showed right before the request was
\* issued, loading is false and no request is outstanding, so a new request
\* can be issued from that phase.
C1_FailureRestoresPhase ==
  lastEnded \in {"png-fail", "svg-fail"} =>
    /\ currentPhase = phaseAtIssue
    /\ ~loading
    /\ inflight = NoRequest
    /\ currentPhase \in {"preview", "download"}

\* a PNG request issued from the preview phase has failed and been handled
C1_Witness ==
  /\ lastEnded = "png-fail"
  /\ phaseAtIssue = "preview"
  /\ error = "err"
  /\ [ep |-> "upload", file |-> selectedFile] \in netLog

\* C2: the displayed phase is determined by (selected file, loading, result
\* image): upload without a file; preview with a file, not loading, no
\* result; loading with a file and a request in flight; download with a
\* file, not loading and a result.
C2_PhaseTable ==
  /\ selectedFile = NULL => currentPhase = "upload"
  /\ (selectedFile # NULL /\ ~loading /\ resultImage = NULL) => currentPhase = "preview"
  /\ (selectedFile # NULL /\ inflight.kind # "none") => currentPhase = "loading"
  /\ (selectedFile # NULL /\ ~loading /\ resultImage # NULL) => currentPhase = "download"
  /\ loading <=> inflight.kind # "none"

\* an SVG request is in flight while the PNG result is still present
C2_Witness ==
  /\ inflight.kind = "svg"
  /\ resultImage # NULL
  /\ currentPhase = "loading"

\* C3 (as claimed): no network request ever carries a file larger than the
\* client-side ceiling.
C3_NoOversizeRequest ==
  \A r \in netLog : FileSize(r.file) <= MAX_FILE_SIZE

\* C32: a file becomes the selected file only if its extension is in the
\* configured allow-list, whether it was dropped or picked in the dialog.
C32_SelectedFileHasAllowedExtension ==
  selectedFile # NULL => FileExt(selectedFile) \in SUPPORTED_FORMATS

\* map-generation requests (PNG or SVG) that were issued and have not ended
GenerationsInFlight ==
  (IF inflight.kind # "none" THEN 1 ELSE 0) + editorFetches

\* C33: at most one map-generation request is in flight at any time, and
\* loading is true exactly while one is in flight.
C33_OneGenerationAndLoadingCoversIt ==
  /\ GenerationsInFlight <= 1
  /\ loading <=> (GenerationsInFlight > 0)

\* C23: a restart issued from any state of the workflow, and the hook's
\* reset called in any state of the workflow, leave every workflow field at
\* its initial value (no selected file, not loading, progress 0, empty error,
\* status and file name, no result image, no result blobs), so that the
\* phase shown is 'upload'.
C23_RestartResetsEverything ==
  /\ [][Restart => (workflowState' = initialWorkflowState
                    /\ currentPhase' = "upload")]_vars
  /\ [](/\ reset = initialWorkflowState
        /\ getPhase(reset.selectedFile, reset.loading, reset.resultImage)
             = "upload")

\* a restart has happened after a generation request went out
C23_Witness ==
  /\ netLog # {}
  /\ workflowState = initialWorkflowState
  /\ currentPhase = "upload"

(***************************************************************************)
(* Properties - parameter panel (SpecPar)                                  *)
(***************************************************************************)

\* C4 (as claimed): a slice-preview request is never issued while a drag or
\* touch interaction on a parameter control is in progress.
C4_NoRequestWhileInteracting ==
  reqNow => Open = 0

ValuesChanged == currentZ' # currentZ \/ params' # params

FreshTimer(ts, z, p) ==
  /\ Cardinality(ts) = 1
  /\ \A t \in ts : t.due = PreviewDelay /\ t.z = z /\ t.p = p

JustChangedTo(z, p) ==
  pZBounds /\ sinceChange = 0 /\ currentZ = z /\ params = p

\* the preview effect has just run and set its 300 ms timeout: the user
\* committed a value or moved a control, or the flag has just dropped
JustScheduled == \E t \in previewTimers : t.due = PreviewDelay

C7_UnselectedKeepsStyle ==
  \A e \in doc :
    ~Includes(selectedElements, e) =>
      /\ attr[e].stroke = LoadedStroke(e)
      /\ attr[e].width = LoadedWidth(e)

\* an element the last operation deselected, after its width had been
\* multiplied while it was selected
C7_Witness ==
  \E e \in doc :
    /\ e \in lastOp.prev
    /\ ~Includes(selectedElements, e)
    /\ attr[e].dWidth = LoadedWidth(e)
    /\ attr[e].width = LoadedWidth(e)

\* C8: right after a plain (no Shift) marquee over rectangle R the selection
\* holds exactly the elements whose bounding box intersects R, each once,
\* whatever was selected before.
C8_PlainMarqueeSelectsHits ==
  (lastOp.op = "marquee" /\ ~lastOp.shift) =>
    /\ Range(selectedElements) = lastOp.hits
    /\ Len(selectedElements) = Cardinality(lastOp.hits)

\* a plain marquee that replaced a non-empty selection by a different one
C8_Witness ==
  /\ lastOp.op = "marquee"
  /\ ~lastOp.shift
  /\ lastOp.prev # {}
  /\ selectedElements # <<>>
  /\ Range(selectedElements) # lastOp.prev

\* C9: right after a shift-marquee with hit set H over a selection S the
\* selection is the symmetric difference of S and H: the hits that were not
\* selected are added, the hits that were selected are removed, and the
\* selected elements outside H stay selected.
C9_ShiftMarqueeIsSymmetricDifference ==
  (lastOp.op = "marquee" /\ lastOp.shift) =>
    LET S == lastOp.prev
        H == lastOp.hits
    IN /\ Range(selectedElements) = (S \ H) \cup (H \ S)
       /\ Len(selectedElements) = Cardinality((S \ H) \cup (H \ S))
       /\ \A e \in doc : attr[e].selected <=> e \in (S \ H) \cup (H \ S)

\* a shift-marquee that removed one hit and added another
C9_Witness ==
  /\ lastOp.op = "marquee"
  /\ lastOp.shift
  /\ lastOp.prev \cap lastOp.hits # {}
  /\ lastOp.hits \ lastOp.prev # {}

\* C10: with the Select tool active, a plain click on a selectable element E
\* (outside the 100 ms in which clicks are suppressed after a marquee) makes
\* the selection exactly [E] when E was unselected or one of several
\* selected elements, and changes neither the selection nor the styling nor
\* the element carrying the transform handles when E was the sole selected
\* element.
C10_PlainClickSelectsOnly ==
  [][(/\ clickPending.on
      /\ clickPending.target # NULL
      /\ ~clickPending.shift
      /\ activeTool = "select"
      /\ ~justFinishedMarquee)
     => IF selectedElements = <<clickPending.target>>
          THEN UNCHANGED <<attr, selectedElements, transformEl>>
          ELSE selectedElements' = <<clickPending.target>>]_vars

\* C11 (as claimed): with the Select tool active, a shift-click on a
\* selectable element E (outside the 100 ms in which clicks are suppressed
\* after a marquee) removes E from the selection when it is a member and
\* appends it otherwise; the membership and order of every other selected
\* element and the styling of every other element stay as they were.
C11_ShiftClickToggles ==
  [][(/\ clickPending.on
      /\ clickPending.target # NULL
      /\ clickPending.shift
      /\ activeTool = "select"
      /\ ~justFinishedMarquee)
     => /\ selectedElements' =
             IF Includes(selectedElements, clickPending.target)
               THEN Without(selectedElements, clickPending.target)
               ELSE Append(selectedElements, clickPending.target)
        /\ \A e \in doc \ {clickPending.target} : attr'[e] = attr[e]]_vars

\* C12 (as claimed): with the Select tool, a plain press and release (no
\* movement, no Shift) at a canvas point where no selectable element is hit
\* leaves the selection empty once its click has been delivered, whatever
\* was selected before.
C12_EmptyCanvasClickClears ==
  [][(/\ lastOp.op = "marquee"
      /\ lastOp.still
      /\ ~lastOp.shift
      /\ activeTool = "select"
      /\ clickPending.on
      /\ ~clickPending.shift)
     => selectedElements' = <<>>]_vars

\* C16 (as claimed): a click delivered within 100 ms after a marquee
\* completes (the timeout of the latest marquee is still pending) does not
\* change the selection, and click handling has resumed once the 100 ms have
\* elapsed (no timeout pending: the guard flag is down).
C16_GuardCoversHundredMs ==
  /\ [][(clickPending.on /\ guardTimers > 0) => UNCHANGED selectedElements]_vars
  /\ [](guardTimers = 0 => ~justFinishedMarquee)

\* C19 (as claimed): the document-level mousemove and mouseup listeners are
\* registered only while a pan drag or a marquee is in progress, that is
\* while the button that began it is still held: with no gesture active, and
\* after any sequence of gestures, none is registered.
C19_ListenersOnlyDuringGesture ==
  globalListeners => pressTarget.down

\* C21 (as claimed): as long as nothing but hovering, selecting, panning and
\* tool switching has happened since load, an export issued from the File
\* menu (the pointer is on the menu, so on no element) yields exactly the
\* drawable elements of the loaded SVG: none added, none removed.
C21_ExportEqualsLoaded ==
  hoverClones = {} => handleExport = LoadedSvg

\* C36: every selected element's stroke-width is 1.5 times the width recorded
\* in its data-original-stroke-width attribute, however many selection
\* operations have included the element since it was last unselected.
C36_SelectedWidthIsOnceScaled ==
  \A e \in Range(selectedElements) :
    /\ attr[e].dWidth # NoWidth
    /\ attr[e].width = Times15(attr[e].dWidth)

(***************************************************************************)
(* Properties - map editor, inspector (SpecInspect)                        *)
(***************************************************************************)
\* C37: when stroke or stroke-width was edited in the inspector while an
\* element was selected, the element carries the edited value once it is
\* deselected (not the value it had before selection, not the highlight).
C37_DeselectedKeepsEdit ==
  \A e \in doc :
    ~Includes(selectedElements, e) =>
      /\ lastEdit[e].stroke.set => attr[e].stroke = lastEdit[e].stroke.v
      /\ lastEdit[e].width.set => attr[e].width = lastEdit[e].width.v

\* the stroke applySelectionStyle forces on a selected element
HighlightStroke == "#00a3ff"

C13_HandlesFollowSelection ==
  /\ Cardinality(attached) <= 1
  /\ selectedElements = <<>> => attached = {}
  /\ selectedElements # <<>> => attached = {LastOf(selectedElements)}

\* C14: a delete-selected step with selection S removes every element of S
\* from the document, removes no element outside S, and leaves the selection
\* empty.
C14_DeleteRemovesSelection ==
  [][KeyDelete
     => /\ doc' = doc \ Range(selectedElements)
        /\ \A e \in Range(selectedElements) : e \notin doc'
        /\ selectedElements' = <<>>]_vars

\* a delete has removed one element of the loaded document and left another
C14_Witness ==
  /\ doc # {}
  /\ doc # Elems
  /\ selectedElements = <<>>
  /\ \A e \in doc : ~attr[e].selected

\* C15 (as claimed): a duplicate-selected step with selection S adds exactly
\* one new clone per element of S to the document, makes the selection
\* exactly those clones, and keeps every original in the document.
C15_DuplicateAddsClones ==
  [][KeyDuplicate
     => /\ Cardinality(doc' \ doc) = Len(selectedElements)
        /\ Range(selectedElements') = doc' \ doc
        /\ Range(selectedElements') \cap Range(selectedElements) = {}
        /\ doc \subseteq doc']_vars

\* C40: every element in the selection list, and the element the
\* manipulation layer is attached to, is attached to the editor document:
\* after delete, convert-to-path or any other operation that removes
\* elements, no removed element remains selected or the transform target.
C40_SelectionAndTargetInDocument ==
  /\ Range(selectedElements) \subseteq doc
  /\ transformEl # NULL => transformEl \in doc
  /\ attached \subseteq doc

(***************************************************************************)
(* Properties - map editor, tools and zoom (SpecView)                      *)
(***************************************************************************)

\* C17 (as claimed): for every tool T that is active when Space is pressed,
\* the active tool is Pan while Space is held and is T again right after
\* Space is released.
C17_SpaceRestoresTool ==
  /\ [](isSpacePressed => activeTool = "pan")
  /\ [][(isSpacePressed /\ ~isSpacePressed') => activeTool' = toolAtSpace]_vars

\* C18: after any sequence of zoom-in, zoom-out and reset-view actions
\* (keyboard, wheel, Zoom-tool click, the store's setZoom and resetView) the
\* zoom factor of the editor and the one of the store lie within [0.1, 5].
C18_ZoomWithinLimits ==
  /\ ZoomMin <= zoom /\ zoom <= ZoomMax
  /\ ZoomMin <= storeZoom /\ storeZoom <= ZoomMax

\* the editor has been zoomed in until the clamp cut the step short, and the
\* store was handed a value below the range
C18_Witness ==
  /\ zoom = ZoomMax
  /\ storeZoom = ZoomMin

\* C20: at every state the hover layer holds at most one hover clone, and
\* none whose source element is selected: whichever way an element becomes
\* selected (click, shift-click, marquee, select-all, duplicate), its hover
\* clone is gone.
C20_NoHoverCloneOfSelected ==
  /\ Cardinality(hoverClones) <= 1
  /\ \A e \in hoverClones :
       ~Includes(selectedElements, e) /\ ~attr[e].selected

\* a shift-click or a marquee has just selected the element that carried the
\* hover clone
C20_Witness ==
  /\ lastOp.op \in {"click", "marquee"}
  /\ lastOp.hov # NULL
  /\ Includes(selectedElements, lastOp.hov)
  /\ lastOp.hov \notin lastOp.prev
  /\ lastOp.prev # {}
  /\ hoverClones = {}

(***************************************************************************)
(* Properties - editor page hand-off (SpecPage)                            *)
(***************************************************************************)

\* C22: whenever the editor page opens, the editor core is given the durable
\* record's SVG if a durable record is present, otherwise the session
\* stash's SVG if the stash holds one; it is given nothing only when neither
\* store holds a usable map.
C22_EditorReceivesPendingMap ==
  [][(route # "/editor" /\ route' = "/editor") =>
       LET durable == editMapData'
           stash   == svgToEdit'
           stashUsable == stash.has /\ stash.text[1] \in SvgTexts
       IN /\ durable.has => initialSvg' = durable.text[2]
          /\ (~durable.has /\ stashUsable) => initialSvg' = stash.text[1]
          /\ initialSvg' = NULL => (~durable.has /\ ~stashUsable)]_vars

\* the page was opened with both stores filled with different maps, and the
\* editor has the durable one
C22_Witness ==
  /\ route = "/editor"
  /\ editMapData.has
  /\ svgToEdit.has
  /\ svgToEdit.text[1] \in SvgTexts
  /\ svgToEdit.text[1] # editMapData.text[2]
  /\ initialSvg = editMapData.text[2]
  /\ mapMetadata # NULL

(***************************************************************************)
(* Properties - upload service (SpecUp)                                    *)
(***************************************************************************)

\* C24 (as claimed): for a response whose status is none of 200, 405 and 0,
\* the call is rejected with the body's detail text when the body is a JSON
\* object carrying one, and with the generic message naming the status when
\* the body cannot be parsed; it is never resolved.
C24_ErrorCarriesDetail ==
  (xhr.call # "none" /\ xhr.status \notin {200, 405, 0}) =>
    /\ settled.state = "rejected"
    /\ (xhr.body.kind = "object" /\ xhr.body.detail # "") =>
          settled.text = xhr.body.detail
    /\ xhr.body.kind \in {"html", "empty"} =>
          (settled.text = GenericText(xhr.call) /\ settled.code = xhr.status)

(***************************************************************************)
(* Properties - editor store history (SpecHist)                            *)
(***************************************************************************)

\* C25: after any sequence of pushToHistory, undo and redo calls the undo
\* (past) stack holds at most 50 snapshots.
C25_PastAtMostFifty == Len(past) <= 50

\* the stack is full, entries have been dropped, and undo has been used
C25_Witness ==
  /\ Len(past) + Len(future) = 50
  /\ Len(future) > 0
  /\ past # <<>>
  /\ past[1] # NULL

\* C26 (as claimed): undo moves the present snapshot to the head of the
\* future stack and makes the most recent past entry the present (and the
\* restored content), redo does the reverse; so undo followed by redo, and
\* redo followed by undo, leave past, present, future and the restored
\* content as they were.
C26_UndoRedoInverse ==
  /\ Len(past) > 0 =>
       undo(history) = [past |-> Front(past),
                        present |-> past[Len(past)],
                        future |-> <<present>> \o future,
                        live |-> past[Len(past)]]
  /\ Len(future) > 0 =>
       redo(history) = [past |-> Append(past, present),
                        present |-> future[1],
                        future |-> Shifted(future),
                        live |-> future[1]]
  /\ Len(past) > 0 => redo(undo(history)) = history
  /\ Len(future) > 0 => undo(redo(history)) = history

\* C38: whenever canUndo() is true, undo() completes without error and makes
\* present a snapshot recorded by an earlier pushToHistory, also right after
\* the first pushToHistory on a fresh store.
C38_UndoSucceedsWhenOffered ==
  canUndo =>
    /\ ~undoThrows(history)
    /\ undo(history).present # NULL
    /\ undo(history).present \in 1..(MaxEdits + 1)

(***************************************************************************)
(* Properties - normalisation of a loaded SVG (SpecLoad)                   *)
(***************************************************************************)

\* C27 (as claimed): when the larger dimension of the loaded SVG's viewBox
\* is below 10 units the content scale is 1000 divided by that dimension and
\* the larger normalised dimension is exactly 1000; when it is 10 units or
\* more the content scale is exactly 1 and the normalised dimensions are the
\* viewBox dimensions.
C27_NormalizationThreshold ==
  (loadedViewBox.present /\ Max(loadedViewBox.w, loadedViewBox.h) > 0) =>
    LET larger == Max(loadedViewBox.w, loadedViewBox.h)
        thousand == [n |-> 1000, d |-> 1]
        width == originalDimensions.width
        height == originalDimensions.height
    IN IF larger < 100
       THEN /\ FracEq(contentScale, [n |-> 1000 * 10, d |-> larger])
            /\ FracLeq(width, thousand) /\ FracLeq(height, thousand)
            /\ (FracEq(width, thousand) \/ FracEq(height, thousand))
       ELSE /\ FracEq(contentScale, [n |-> 1, d |-> 1])
            /\ FracEq(width, [n |-> loadedViewBox.w, d |-> 10])
            /\ FracEq(height, [n |-> loadedViewBox.h, d |-> 10])

(***************************************************************************)
(* Properties - intersectsRect (SpecRect)                                  *)
(***************************************************************************)

\* C28 (as claimed): intersectsRect returns true for rectangles that
\* overlap, false for rectangles that are disjoint, and false as well for
\* rectangles that only touch along an edge or at a corner.
C28_TouchingIsNoOverlap ==
  irResult.called =>
    /\ ShareInnerPoint(irBounds, irRect) => irResult.value
    /\ ~SharePoint(irBounds, irRect) => ~irResult.value
    /\ (SharePoint(irBounds, irRect) /\ ~ShareInnerPoint(irBounds, irRect))
         => ~irResult.value

\* C28 (amended): intersectsRect returns true exactly when the two closed
\* rectangles have a point in common: true for rectangles that overlap or
\* only touch along an edge or at a corner, false for disjoint ones.
C28_ClosedRectanglesMeet ==
  irResult.called => (irResult.value <=> SharePoint(irBounds, irRect))

\* the test was made for two proper rectangles that meet in one corner only
C28_Witness ==
  /\ irResult.called
  /\ irResult.value
  /\ irBounds.minX < irBounds.maxX /\ irBounds.minY < irBounds.maxY
  /\ irRect.width > 0 /\ irRect.height > 0
  /\ irBounds.maxX = irRect.x
  /\ irBounds.maxY = irRect.y

(***************************************************************************)
(* Properties - mathUtils (SpecExpr, SpecInput)                            *)
(***************************************************************************)

\* the whole of s is one plain number: a sign, digits with at most one
\* decimal point among them, or the word Infinity
IsPlainNumber(s) ==
  LET t == IF Len(s) > 0 /\ s[1] \in {"-", "+"} THEN SubSeq(s, 2, Len(s))
           ELSE s
  IN \/ t = <<"I">>
     \/ /\ \E k \in 1..Len(t) : t[k] \in Digits
        /\ \A k \in 1..Len(t) : t[k] \in Digits \cup {"."}
        /\ Cardinality({k \in 1..Len(t) : t[k] = "."}) <= 1

\* C29 (as claimed): evaluateExpression returns a number only when the whole
\* input, white space removed, is one binary operation on two numbers or is
\* entirely a plain number; for every other input, and for a division by
\* zero, it returns the absent result.
C29_NumberOnlyForWholeMatch ==
  exprResult # NoValue =>
    LET s == Strip(exprInput)
        match == mathPattern(s)
    IN /\ IsNumber(exprResult) => (match # {} \/ IsPlainNumber(s))
       /\ (match = {} /\ ~IsPlainNumber(s)) => exprResult = Null
       /\ \A p \in match :
            (s[p] = "/" /\ parseFloat(SubSeq(s, p + 1, Len(s))).n = 0)
              => exprResult = Null

\* C30 (as claimed): processInputValue returns either the absent result or
\* a finite number within [min, max]; a value that is not finite is
\* rejected, and so is one that is not positive when positiveOnly is set.
C30_FiniteWithinRange ==
  pivResult # NoValue =>
    /\ \/ pivResult = Null
       \/ /\ pivResult.kind = "fin"
          /\ NumLeq(pivOptions.min, pivResult)
          /\ NumLeq(pivResult, pivOptions.max)
    /\ newValueOf(pivInput).kind \in {"nan", "inf", "-inf"}
         => pivResult = Null
    /\ (pivOptions.positiveOnly /\ newValueOf(pivInput).kind = "fin"
        /\ NumLeq(newValueOf(pivInput), Fin(0, 1)))
         => pivResult = Null

(***************************************************************************)
(* Properties - auto-orientation of the 3D preview (SpecOrient)            *)
(***************************************************************************)
\* the largest of the three extents
LargestExtent(size) == Max(size.x, Max(size.y, size.z))

\* C31: the mesh is rotated about X exactly when the bounding box's largest
\* extent is along Y, and is not rotated when the largest extent is along X
\* or along Z.
C31_RotatesOnlyWhenYLongest ==
  orientResult.called =>
    /\ orientResult.rotated <=> (orientSize.y = LargestExtent(orientSize))
    /\ (\/ orientSize.x = LargestExtent(orientSize)
        \/ orientSize.z = LargestExtent(orientSize)) => ~orientResult.rotated

\* C31 (amended): the mesh is rotated about X exactly when the Y extent is
\* at least as large as both the X and the Z extent, ties included (a cube
\* is rotated); otherwise it is left as loaded.  A rotation exchanges the
\* box's Y and Z extents.
C31_RotatesWhenYNotExceeded ==
  orientResult.called =>
    /\ orientResult.rotated <=>
         (orientSize.y >= orientSize.x /\ orientSize.y >= orientSize.z)
    /\ orientResult.rotated =>
         orientResult.size = [x |-> orientSize.x, y |-> orientSize.z, z |-> orientSize.y]
    /\ ~orientResult.rotated => orientResult.size = orientSize

\* a box as long along X as along Y, flatter along Z, has been rotated
C31_Witness ==
  /\ orientResult.called
  /\ orientSize.x = orientSize.y
  /\ orientSize.z < orientSize.y
  /\ orientResult.rotated
  /\ orientResult.size.z = orientSize.y

(***************************************************************************)
(* Properties - slice preview answers (SpecSlice)                          *)
(***************************************************************************)
\* C34: the slice displayed corresponds to the most recently issued request:
\* once that request's answer is in, the answer to an older request that
\* arrives later does not replace it.
C34_LatestRequestWins ==
  latestResult # NoSlice => sliceData = latestResult

====
